---- MODULE Spec2Model ----
(***************************************************************************)
(* Session logic of the citizenship-test trainer: the answer normaliser,   *)
(* the question sampler and the exam state machine of src/pages/Exam.tsx.  *)
(*                                                                         *)
(* Strings are sequences of one-character strings, so that trim,           *)
(* toLowerCase, startsWith, slice and indexing are computed as the code    *)
(* computes them.  Option keys ("a".."d") and the phase names are atoms.   *)
(***************************************************************************)
EXTENDS Integers, Sequences, FiniteSets, TLC

(***************************************************************************)
(* Strings                                                                 *)
(***************************************************************************)

\* String.prototype.toLowerCase on one character
LowerChar(c) ==
  CASE c = "A" -> "a" [] c = "B" -> "b" [] c = "C" -> "c" [] c = "D" -> "d"
    [] c = "O" -> "o" [] c = "P" -> "p" [] c = "T" -> "t" [] c = "I" -> "i"
    [] c = "N" -> "n" [] c = "E" -> "e" [] c = "X" -> "x"
    [] c = "J" -> "j" [] c = "L" -> "l" [] c = "R" -> "r" [] c = "S" -> "s"
    [] c = "W" -> "w" [] c = "Z" -> "z"
    [] OTHER -> c

ToLowerCase(s) == [i \in 1..Len(s) |-> LowerChar(s[i])]

IsSpace(c) == c = " "

RECURSIVE TrimStart(_)
TrimStart(s) ==
  IF s # <<>> /\ IsSpace(Head(s)) THEN TrimStart(Tail(s)) ELSE s

RECURSIVE TrimEnd(_)
TrimEnd(s) ==
  IF s # <<>> /\ IsSpace(s[Len(s)]) THEN TrimEnd(SubSeq(s, 1, Len(s) - 1)) ELSE s

\* String.prototype.trim
Trim(s) == TrimEnd(TrimStart(s))

\* String.prototype.startsWith
StartsWith(s, p) == Len(s) >= Len(p) /\ SubSeq(s, 1, Len(p)) = p

OptionPrefix == <<"o", "p", "t", "i", "o", "n", "_">>

\* the value null / undefined of a field that carries no string
NullValue == <<"null-value">>

\* the four option keys, in the order of ['a', 'b', 'c', 'd']
OptionKeys == <<"a", "b", "c", "d">>

Letters == {"a", "b", "c", "d"}

Digits == <<"1", "2", "3", "4">>

\* the result null of normalizeCorrectOption
None == "none"

(***************************************************************************)
(* Answer normaliser                                                       *)
(***************************************************************************)

\* mapText[raw] after the four conditional assignments: a later option
\* overwrites an earlier one with the same trimmed lower-cased text, and an
\* empty option text is not entered
MapTextLookup(raw, q) ==
  IF q.option_d # <<>> /\ ToLowerCase(Trim(q.option_d)) = raw THEN "d"
  ELSE IF q.option_c # <<>> /\ ToLowerCase(Trim(q.option_c)) = raw THEN "c"
  ELSE IF q.option_b # <<>> /\ ToLowerCase(Trim(q.option_b)) = raw THEN "b"
  ELSE IF q.option_a # <<>> /\ ToLowerCase(Trim(q.option_a)) = raw THEN "a"
  ELSE None

\* the second argument when the caller has no question (q is optional)
NoQuestion == [undefined |-> TRUE]

\* faulty variant of normalizeCorrectOption: the option texts are looked up
\* before the first character is tried
normalizeCorrectOptionTextFirst(value, q) ==
  IF value = NullValue THEN None
  ELSE LET raw == ToLowerCase(Trim(value)) IN
    IF raw = <<>> THEN None
    ELSE IF Len(raw) = 1 /\ raw[1] \in Letters THEN raw[1]
    ELSE IF Len(raw) = 1 /\ \E k \in 1..4 : raw[1] = Digits[k]
      THEN OptionKeys[CHOOSE k \in 1..4 : raw[1] = Digits[k]]
    ELSE IF StartsWith(raw, OptionPrefix) /\ raw[Len(raw)] \in Letters
      THEN raw[Len(raw)]
    ELSE IF q # NoQuestion /\ MapTextLookup(raw, q) # None
      THEN MapTextLookup(raw, q)
    ELSE IF raw[1] \in Letters THEN raw[1]
    ELSE None

\* faulty variant of normalizeCorrectOption: an unrecognised value falls
\* back to the first key
normalizeCorrectOptionDefaultA(value, q) ==
  IF value = NullValue THEN None
  ELSE LET raw == ToLowerCase(Trim(value)) IN
    IF raw = <<>> THEN None
    ELSE IF Len(raw) = 1 /\ raw[1] \in Letters THEN raw[1]
    ELSE IF Len(raw) = 1 /\ \E k \in 1..4 : raw[1] = Digits[k]
      THEN OptionKeys[CHOOSE k \in 1..4 : raw[1] = Digits[k]]
    ELSE IF StartsWith(raw, OptionPrefix) /\ raw[Len(raw)] \in Letters
      THEN raw[Len(raw)]
    ELSE IF raw[1] \in Letters THEN raw[1]
    ELSE IF q = NoQuestion THEN "a"
    ELSE IF MapTextLookup(raw, q) = None THEN "a"
    ELSE MapTextLookup(raw, q)

\* faulty variant of normalizeCorrectOption: toLowerCase is missing
normalizeCorrectOptionCaseSensitive(value, q) ==
  IF value = NullValue THEN None
  ELSE LET raw == Trim(value) IN
    IF raw = <<>> THEN None
    ELSE IF Len(raw) = 1 /\ raw[1] \in Letters THEN raw[1]
    ELSE IF Len(raw) = 1 /\ \E k \in 1..4 : raw[1] = Digits[k]
      THEN OptionKeys[CHOOSE k \in 1..4 : raw[1] = Digits[k]]
    ELSE IF StartsWith(raw, OptionPrefix) /\ raw[Len(raw)] \in Letters
      THEN raw[Len(raw)]
    ELSE IF raw[1] \in Letters THEN raw[1]
    ELSE IF q = NoQuestion THEN None
    ELSE MapTextLookup(raw, q)

normalizeCorrectOption(value, q) ==
  IF value = NullValue THEN None
  ELSE LET raw == ToLowerCase(Trim(value)) IN
    IF raw = <<>> THEN None
    ELSE IF Len(raw) = 1 /\ raw[1] \in Letters THEN raw[1]
    ELSE IF Len(raw) = 1 /\ \E k \in 1..4 : raw[1] = Digits[k]
      THEN OptionKeys[CHOOSE k \in 1..4 : raw[1] = Digits[k]]
    ELSE IF StartsWith(raw, OptionPrefix) /\ raw[Len(raw)] \in Letters
      THEN raw[Len(raw)]
    ELSE IF raw[1] \in Letters THEN raw[1]
    ELSE IF q = NoQuestion THEN None
    ELSE MapTextLookup(raw, q)

(***************************************************************************)
(* Question repository (the rows the two fetches can return)               *)
(***************************************************************************)

\* bounds of the explored inputs; MaxCallbacks bounds the callbacks
\* outstanding at one time (armed timers plus awaited startExam calls)
MaxGeneralPool == 31
MaxStatePool == 4
RandDenom == 3
RandPeriod == 3
MaxCallbacks == 2

\* the sampler's and the pass rule's numbers
GeneralCount == 30
StateCount == 3
PassMark == 17

Regions == {"nrw"}

Languages == {"englisch"}

\* identifiers of the region rows start above those of the general rows
StateIdBase == MaxGeneralPool

TextBerlin == <<"B", "e", "r", "l", "i", "n">>
TextEins == <<"e", "i", "n", "s">>
TextNein == <<"N", "e", "i", "n">>
TextDie == <<"d", "i", "e">>

\* correct_option column of the general rows: sixteen plain lower-case
\* letters "a", then the other encodings the column is known to carry
GeneralRaw(id) ==
  IF id <= 16 THEN <<"a">>
  ELSE CASE id = 17 -> <<"b">>
         [] id = 18 -> <<"A">>
         [] id = 19 -> <<" ", "c", " ">>
         [] id = 20 -> <<"1">>
         [] id = 21 -> <<"4">>
         [] id = 22 -> <<"o", "p", "t", "i", "o", "n", "_", "b">>
         [] id = 23 -> <<"O", "P", "T", "I", "O", "N", "_", "D">>
         [] id = 24 -> TextEins
         [] id = 25 -> TextDie
         [] id = 26 -> <<>>
         [] id = 27 -> <<"x">>
         [] id = 28 -> <<"d">>
         [] id = 29 -> <<"c">>
         [] id = 30 -> <<"b">>
         [] OTHER -> <<"a">>

StateRaw(id) ==
  CASE id = StateIdBase + 1 -> <<"a">>
    [] id = StateIdBase + 2 -> <<"B">>
    [] id = StateIdBase + 3 -> <<"2">>
    [] OTHER -> <<"C">>

Question(id) ==
  [id |-> id,
   option_a |-> TextBerlin, option_b |-> TextEins,
   option_c |-> TextNein, option_d |-> TextDie,
   correct_option |-> IF id > StateIdBase THEN StateRaw(id) ELSE GeneralRaw(id)]

\* result of .eq('category', 'general') holding n rows; a row is referred to
\* by its id, Question(id) is the row
GeneralRows(n) == [i \in 1..n |-> i]

\* result of .eq('state_id', stateId) holding m rows
StateRows(m) == [i \in 1..m |-> StateIdBase + i]

\* result of .eq('state_id', stateId) holding m rows of which the first is
\* also a row of category 'general' (the two queries filter on different
\* columns)
SharedStateRows(m) == [i \in 1..m |-> IF i = 1 THEN 1 ELSE StateIdBase + i]

\* { data, error } of a query
FetchError == [error |-> TRUE, data |-> <<>>]

FetchOk(rows) == [error |-> FALSE, data |-> rows]

GeneralResponses ==
  {FetchError} \cup {FetchOk(GeneralRows(n)) : n \in (GeneralCount - 1)..MaxGeneralPool}

StateResponses ==
  {FetchError, FetchOk(SharedStateRows(StateCount))}
    \cup {FetchOk(StateRows(m)) : m \in (StateCount - 1)..MaxStatePool}

(***************************************************************************)
(* Question sampler                                                        *)
(***************************************************************************)

\* the values Math.random() returns during one generateExamQuestions call, as
\* numerators over RandDenom, repeated with period RandPeriod
RandomStreams == [1..RandPeriod -> 0..(RandDenom - 1)]

\* faulty variant of RandomIndex: Math.floor(Math.random() * i)
RandomIndexBelow(stream, n, i) ==
  (stream[(n % Len(stream)) + 1] * i) \div RandDenom

\* Math.floor(Math.random() * (i + 1)) at the n-th draw of the stream
RandomIndex(stream, n, i) ==
  (stream[(n % Len(stream)) + 1] * (i + 1)) \div RandDenom

\* faulty variant of Swap: shuffled[i] = shuffled[j] without the exchange
SwapOverwrite(arr, i, j) ==
  [k \in 1..Len(arr) |-> IF k = i + 1 THEN arr[j + 1] ELSE arr[k]]

\* [shuffled[i], shuffled[j]] = [shuffled[j], shuffled[i]], 0-based i and j
Swap(arr, i, j) ==
  [k \in 1..Len(arr) |->
     IF k = i + 1 THEN arr[j + 1] ELSE IF k = j + 1 THEN arr[i + 1] ELSE arr[k]]

\* the loop of shuffleArray from index i down to 1; drawn counts the values
\* of the stream consumed before this shuffle
RECURSIVE ShuffleLoop(_, _, _, _)
ShuffleLoop(shuffled, i, stream, drawn) ==
  IF i > 0
    THEN ShuffleLoop(Swap(shuffled, i,
                          RandomIndex(stream, drawn + Len(shuffled) - 1 - i, i)),
                     i - 1, stream, drawn)
    ELSE shuffled

\* const shuffled = [...array]; the loop; return shuffled
shuffleArray(array, stream, drawn) ==
  ShuffleLoop(array, Len(array) - 1, stream, drawn)

\* the number of Math.random() calls one shuffleArray(array) makes
Draws(array) == IF Len(array) > 0 THEN Len(array) - 1 ELSE 0

\* the argument of shuffleArray after the call: the loop writes to the copy
ArrayAfterShuffle(array) == array

\* Array.prototype.slice(0, n)
SliceTo(arr, n) == SubSeq(arr, 1, IF n < Len(arr) THEN n ELSE Len(arr))

\* a rejected promise carries no questions
Rejected == [ok |-> FALSE, questions |-> <<>>]

\* faulty variant of generateExamQuestions: the region check off by one
generateExamQuestionsLax(general, state, stream) ==
  IF general.error THEN Rejected
  ELSE IF state.error THEN Rejected
  ELSE IF Len(general.data) < GeneralCount THEN Rejected
  ELSE IF Len(state.data) < StateCount - 1 THEN Rejected
  ELSE LET selectedGeneral ==
             SliceTo(shuffleArray(general.data, stream, 0), GeneralCount)
           selectedStateQs ==
             SliceTo(shuffleArray(state.data, stream, Draws(general.data)),
                     StateCount)
       IN  [ok |-> TRUE,
            questions |->
              shuffleArray(selectedGeneral \o selectedStateQs, stream,
                           Draws(general.data) + Draws(state.data))]

generateExamQuestions(general, state, stream) ==
  IF general.error THEN Rejected
  ELSE IF state.error THEN Rejected
  ELSE IF Len(general.data) < GeneralCount THEN Rejected
  ELSE IF Len(state.data) < StateCount THEN Rejected
  ELSE LET selectedGeneral ==
             SliceTo(shuffleArray(general.data, stream, 0), GeneralCount)
           selectedStateQs ==
             SliceTo(shuffleArray(state.data, stream, Draws(general.data)),
                     StateCount)
       IN  [ok |-> TRUE,
            questions |->
              shuffleArray(selectedGeneral \o selectedStateQs, stream,
                           Draws(general.data) + Draws(state.data))]

(***************************************************************************)
(* Exam component: state                                                   *)
(***************************************************************************)

VARIABLES
  examState,             \* "setup" | "running" | "finished"
  selectedState,         \* region chosen in the setup screen, "" if none
  selectedLanguage,      \* translation language, "" if none
  showTranslation,
  currentQuestionIndex,  \* 0-based
  selectedAnswer,        \* "" or an option key
  showResult,
  correctAnswers,
  userAnswers,           \* array of option keys, Undefined in its holes
  examQuestions,         \* array of rows, each referred to by its id
  timers,                \* pending setTimeout callbacks, in arming order
  pendingStarts,         \* startExam calls awaiting generateExamQuestions
  toast                  \* description of the toast the last step emitted, "" if none

examVars ==
  <<examState, selectedState, selectedLanguage, showTranslation,
    currentQuestionIndex, selectedAnswer, showResult, correctAnswers,
    userAnswers, examQuestions, timers, pendingStarts, toast>>

\* the fields startExam and resetExam write besides the phase
sessionVars ==
  <<currentQuestionIndex, selectedAnswer, showResult, correctAnswers,
    userAnswers, examQuestions>>

\* one generateExamQuestions call observed on its own
VARIABLES
  samplerPc,         \* "idle" | "fetched" | "settled"
  generalQuestions,  \* { data, error } of the first query
  stateQuestions,    \* { data, error } of the second query
  samplerResult      \* the settled promise

samplerVars == <<samplerPc, generalQuestions, stateQuestions, samplerResult>>

\* the Training component (the second component of src/pages/Exam.tsx); its
\* fields that share a name with a field of Exam carry the prefix training
VARIABLES
  currentQuestion,           \* 0-based position
  trainingQuestions,         \* questions, the loaded rows
  loading,
  isStateSpecific,
  trainingSelectedState,     \* selectedState
  trainingSelectedLanguage,  \* selectedLanguage
  trainingShowTranslation,   \* showTranslation
  jumpToQuestion,            \* text of the "Frage Nr." input
  trainingSelectedAnswer,    \* selectedAnswer
  showCorrectAnswer,
  answerTimer,               \* timer id held in React state, NoTimerId if null
  speedMode,                 \* "langsam" | "schnell"
  revealTimers,              \* the setTimeout timers armed and neither cleared nor fired
  effectCleanup,             \* the id the cleanup of the last auto-reveal effect clears
  pendingFetches,            \* fetchQuestions calls awaiting their query
  firedTimer,                \* the timer whose callback the last step ran, NoTimer if none
  trainingToast,             \* title of the toast the last step emitted, "" if none
  trainingEvent,             \* the handler, effect or callback the last step ran
  translation,               \* the row held for display, NoTranslation if null
  translationLoading,
  translationsCache,         \* translationsCache.current: cache key -> row
  pendingTranslations,       \* fetchTranslation calls awaiting their query
  translationFetches,        \* number of translation queries sent so far
  lastTranslationCall,       \* the latest fetchTranslation call and how it ended
  fetchHistory               \* the filter of the query whose rows are stored, and
                             \* whether the query that returned last succeeded

translationVars ==
  <<translation, translationLoading, translationsCache, pendingTranslations,
    translationFetches, lastTranslationCall>>

trainingVars ==
  <<currentQuestion, trainingQuestions, loading, isStateSpecific, trainingSelectedState,
    trainingSelectedLanguage, trainingShowTranslation, jumpToQuestion,
    trainingSelectedAnswer, showCorrectAnswer, answerTimer, speedMode,
    revealTimers, effectCleanup, pendingFetches, firedTimer, trainingToast,
    trainingEvent, translationVars, fetchHistory>>

\* one normalizeCorrectOption call observed on its own
VARIABLES
  normalizerPc,      \* "idle" | "returned"
  normalizerValue,   \* the first argument
  normalizerQuestion,\* the second argument
  normalizerResult   \* the value returned

normalizerVars ==
  <<normalizerPc, normalizerValue, normalizerQuestion, normalizerResult>>

\* one shuffleArray call observed on its own
VARIABLES
  shufflePc,        \* "idle" | "returned"
  shuffleInput,     \* the argument as it was passed
  shuffleArgument,  \* the argument array after the call
  shuffleOutput     \* the array returned

shuffleVars ==
  <<shufflePc, shuffleInput, shuffleArgument, shuffleOutput>>

vars == <<examVars, samplerVars, trainingVars, normalizerVars, shuffleVars>>

Undefined == "undefined"

ToastNoState == "Bitte waehlen Sie ein Bundesland aus."

ToastLoadFailed == "Pruefungsfragen konnten nicht geladen werden."

\* the keys of the four option cards
AnswerKeys == {OptionKeys[k] : k \in 1..4}

ExamInit ==
  /\ examState = "setup"
  /\ selectedState = ""
  /\ selectedLanguage = ""
  /\ showTranslation = FALSE
  /\ currentQuestionIndex = 0
  /\ selectedAnswer = ""
  /\ showResult = FALSE
  /\ correctAnswers = 0
  /\ userAnswers = <<>>
  /\ examQuestions = <<>>
  /\ timers = <<>>
  /\ pendingStarts = <<>>
  /\ toast = ""

\* faulty variant of passed: a strict comparison
passedStrict == correctAnswers > PassMark

\* const passed = correctAnswers >= 17
passed == correctAnswers >= PassMark

\* examQuestions[currentQuestionIndex] is undefined
NoCurrentQuestion == currentQuestionIndex >= Len(examQuestions)

\* the running screen reads currentQuestion.has_image: with no current
\* question the render throws and the component is unmounted, after which
\* no handler runs and no state update is applied
Mounted == ~(examState = "running" /\ NoCurrentQuestion)

\* newAnswers[index] = answer on a copy of the array (0-based index);
\* writing past the end leaves holes
ArraySet(arr, index, value) ==
  [k \in 1..(IF index + 1 > Len(arr) THEN index + 1 ELSE Len(arr)) |->
     IF k = index + 1 THEN value
     ELSE IF k <= Len(arr) THEN arr[k] ELSE Undefined]

\* the sequence without its i-th element
RemoveAt(seq, i) == SubSeq(seq, 1, i - 1) \o SubSeq(seq, i + 1, Len(seq))

(***************************************************************************)
(* Exam component: environment of the explored sessions                    *)
(***************************************************************************)

\* Math.random() returning 0 at every draw
ZeroStream == <<0>>

\* the answers of the two queries of one generateExamQuestions call
ExamResponses ==
  {<<FetchError, FetchOk(StateRows(StateCount))>>,
   <<FetchOk(GeneralRows(GeneralCount)), FetchError>>,
   <<FetchOk(GeneralRows(GeneralCount - 1)), FetchOk(StateRows(StateCount))>>,
   <<FetchOk(GeneralRows(GeneralCount)), FetchOk(StateRows(StateCount - 1))>>,
   <<FetchOk(GeneralRows(GeneralCount)), FetchOk(StateRows(StateCount))>>}

\* the promises generateExamQuestions can settle with on those answers
ExamPromises ==
  {generateExamQuestions(r[1], r[2], ZeroStream) :
     r \in ExamResponses}

\* the option cards the user of the explored sessions clicks
ExploredKeys == {"a", "b"}

\* the user of an explored session clicks the same option key throughout it
SteadyUser(answer) ==
  \A k \in 1..Len(userAnswers) : userAnswers[k] \in {Undefined, answer}

(***************************************************************************)
(* Exam component: handlers                                                *)
(***************************************************************************)

\* <Select value={selectedState} onValueChange={setSelectedState}>
SelectState(s) ==
  /\ Mounted /\ examState = "setup"
  /\ selectedState' = s
  /\ toast' = ""
  /\ UNCHANGED <<examState, selectedLanguage, showTranslation, sessionVars,
                 timers, pendingStarts>>
  /\ UNCHANGED <<samplerVars, trainingVars, normalizerVars, shuffleVars>>

\* <Select value={selectedLanguage} onValueChange={setSelectedLanguage}>
SelectLanguage(l) ==
  /\ Mounted /\ examState = "setup"
  /\ selectedLanguage' = l
  /\ toast' = ""
  /\ UNCHANGED <<examState, selectedState, showTranslation, sessionVars,
                 timers, pendingStarts>>
  /\ UNCHANGED <<samplerVars, trainingVars, normalizerVars, shuffleVars>>

\* startExam with no region: toast and return
StartExamNoState ==
  /\ Mounted /\ examState = "setup"
  /\ selectedState = ""
  /\ toast' = ToastNoState
  /\ UNCHANGED <<examState, selectedState, selectedLanguage, showTranslation,
                 sessionVars, timers, pendingStarts>>
  /\ UNCHANGED <<samplerVars, trainingVars, normalizerVars, shuffleVars>>

\* faulty variant of StartExamCall: the region check is missing
StartExamCallUnchecked ==
  /\ Mounted /\ examState = "setup"
  /\ Len(timers) + Len(pendingStarts) < MaxCallbacks
  /\ pendingStarts' = Append(pendingStarts, [stateId |-> selectedState])
  /\ toast' = ""
  /\ UNCHANGED <<examState, selectedState, selectedLanguage, showTranslation,
                 sessionVars, timers>>
  /\ UNCHANGED <<samplerVars, trainingVars, normalizerVars, shuffleVars>>

\* startExam up to its await: generateExamQuestions(selectedState) is issued
StartExamCall ==
  /\ Mounted /\ examState = "setup"
  /\ selectedState # ""
  /\ Len(timers) + Len(pendingStarts) < MaxCallbacks
  /\ pendingStarts' = Append(pendingStarts, [stateId |-> selectedState])
  /\ toast' = ""
  /\ UNCHANGED <<examState, selectedState, selectedLanguage, showTranslation,
                 sessionVars, timers>>
  /\ UNCHANGED <<samplerVars, trainingVars, normalizerVars, shuffleVars>>

\* the timers still outstanding when the session is reset: none is cleared;
\* each keeps the index of its closure and is marked as armed in a session
\* that has been reset since
MarkStale(pending) ==
  [k \in 1..Len(pending) |-> [pending[k] EXCEPT !.stale = TRUE]]

\* startExam after its await, the promise fulfilled with questions
StartExamApply(questions) ==
  /\ examQuestions' = questions
  /\ examState' = "running"
  /\ currentQuestionIndex' = 0
  /\ selectedAnswer' = ""
  /\ showResult' = FALSE
  /\ correctAnswers' = 0
  /\ userAnswers' = <<>>
  /\ toast' = ""
  /\ timers' = MarkStale(timers)
  /\ UNCHANGED <<selectedState, selectedLanguage, showTranslation>>

\* faulty variant of StartExamCatch: the phase is switched although nothing was loaded
StartExamCatchRunning ==
  /\ toast' = ToastLoadFailed
  /\ examState' = "running"
  /\ UNCHANGED <<selectedState, selectedLanguage, showTranslation,
                 sessionVars, timers>>

\* startExam after its await, the promise rejected
StartExamCatch ==
  /\ toast' = ToastLoadFailed
  /\ UNCHANGED <<examState, selectedState, selectedLanguage, showTranslation,
                 sessionVars, timers>>

\* the i-th pending startExam resumes with the settled promise of its
\* generateExamQuestions call.  Nothing of the component is read or written
\* between the two awaits of generateExamQuestions, so they are one step.
StartExamResume(i, result) ==
  /\ Mounted
  /\ i \in 1..Len(pendingStarts)
  /\ pendingStarts' = RemoveAt(pendingStarts, i)
  /\ IF result.ok THEN StartExamApply(result.questions) ELSE StartExamCatch
  /\ UNCHANGED <<samplerVars, trainingVars, normalizerVars, shuffleVars>>

\* answer === examQuestions[currentQuestionIndex].correct_option
isCorrect(answer, question) == <<answer>> = question.correct_option

\* faulty variant of handleAnswerSelect: the early return on an answered or
\* revealed question is missing
handleAnswerSelectUnguarded(answer) ==
  /\ Mounted /\ examState = "running"
  /\ Len(timers) + Len(pendingStarts) < MaxCallbacks
  /\ SteadyUser(answer)
  /\ selectedAnswer' = answer
  /\ showResult' = TRUE
  /\ correctAnswers' =
       IF isCorrect(answer, Question(examQuestions[currentQuestionIndex + 1]))
         THEN correctAnswers + 1 ELSE correctAnswers
  /\ userAnswers' = ArraySet(userAnswers, currentQuestionIndex, answer)
  /\ timers' = Append(timers,
                      [advance |-> currentQuestionIndex < Len(examQuestions) - 1,
                       index |-> currentQuestionIndex,
                       stale |-> FALSE])
  /\ toast' = ""
  /\ UNCHANGED <<examState, selectedState, selectedLanguage, showTranslation,
                 currentQuestionIndex, examQuestions, pendingStarts>>
  /\ UNCHANGED <<samplerVars, trainingVars, normalizerVars, shuffleVars>>

\* handleAnswerSelect, reached through onClick only while !showResult
handleAnswerSelect(answer) ==
  /\ Mounted /\ examState = "running"
  /\ ~showResult
  /\ ~(selectedAnswer # "" \/ showResult)
  /\ Len(timers) + Len(pendingStarts) < MaxCallbacks
  /\ SteadyUser(answer)
  /\ selectedAnswer' = answer
  /\ showResult' = TRUE
  /\ correctAnswers' =
       IF isCorrect(answer, Question(examQuestions[currentQuestionIndex + 1]))
         THEN correctAnswers + 1 ELSE correctAnswers
  /\ userAnswers' = ArraySet(userAnswers, currentQuestionIndex, answer)
  /\ timers' = Append(timers,
                      [advance |-> currentQuestionIndex < Len(examQuestions) - 1,
                       index |-> currentQuestionIndex,
                       stale |-> FALSE])
  /\ toast' = ""
  /\ UNCHANGED <<examState, selectedState, selectedLanguage, showTranslation,
                 currentQuestionIndex, examQuestions, pendingStarts>>
  /\ UNCHANGED <<samplerVars, trainingVars, normalizerVars, shuffleVars>>

\* the callback of the setTimeout of handleAnswerSelect.  Its closure holds
\* currentQuestionIndex and examQuestions of the render that armed it; the
\* timer record keeps the comparison the callback makes with them.  Every
\* timer has the same delay, so the one armed first fires first.
TimerFire ==
  /\ Mounted
  /\ timers # <<>>
  /\ timers' = Tail(timers)
  /\ IF Head(timers).advance
       THEN /\ currentQuestionIndex' = currentQuestionIndex + 1
            /\ selectedAnswer' = ""
            /\ showResult' = FALSE
            /\ showTranslation' = FALSE
            /\ UNCHANGED examState
       ELSE /\ examState' = "finished"
            /\ UNCHANGED <<currentQuestionIndex, selectedAnswer, showResult,
                           showTranslation>>
  /\ toast' = ""
  /\ UNCHANGED <<selectedState, selectedLanguage, correctAnswers, userAnswers,
                 examQuestions, pendingStarts>>
  /\ UNCHANGED <<samplerVars, trainingVars, normalizerVars, shuffleVars>>

\* the Back button of the running screen: setExamState("setup")
Back ==
  /\ Mounted /\ examState = "running"
  /\ examState' = "setup"
  /\ toast' = ""
  /\ UNCHANGED <<selectedState, selectedLanguage, showTranslation, sessionVars,
                 timers, pendingStarts>>
  /\ UNCHANGED <<samplerVars, trainingVars, normalizerVars, shuffleVars>>

\* the translation button of the running screen
ToggleTranslation ==
  /\ Mounted /\ examState = "running"
  /\ selectedLanguage # ""
  /\ showTranslation' = ~showTranslation
  /\ toast' = ""
  /\ UNCHANGED <<examState, selectedState, selectedLanguage, sessionVars,
                 timers, pendingStarts>>
  /\ UNCHANGED <<samplerVars, trainingVars, normalizerVars, shuffleVars>>

\* the useState values of the component
ExamFields ==
  [examState |-> examState,
   selectedState |-> selectedState,
   selectedLanguage |-> selectedLanguage,
   showTranslation |-> showTranslation,
   currentQuestionIndex |-> currentQuestionIndex,
   selectedAnswer |-> selectedAnswer,
   showResult |-> showResult,
   correctAnswers |-> correctAnswers,
   userAnswers |-> userAnswers,
   examQuestions |-> examQuestions]

\* the arguments of the useState calls
InitialExamFields ==
  [examState |-> "setup",
   selectedState |-> "",
   selectedLanguage |-> "",
   showTranslation |-> FALSE,
   currentQuestionIndex |-> 0,
   selectedAnswer |-> "",
   showResult |-> FALSE,
   correctAnswers |-> 0,
   userAnswers |-> <<>>,
   examQuestions |-> <<>>]

\* faulty variant of resetExamFields: setCorrectAnswers(0) and
\* setUserAnswers([]) are missing
resetExamFieldsKeepsScore(fields) ==
  [fields EXCEPT
     !.examState = "setup",
     !.selectedState = "",
     !.selectedLanguage = "",
     !.showTranslation = FALSE,
     !.currentQuestionIndex = 0,
     !.selectedAnswer = "",
     !.showResult = FALSE,
     !.examQuestions = <<>>]

\* the ten setter calls of resetExam applied to the useState values
resetExamFields(fields) ==
  [fields EXCEPT
     !.examState = "setup",
     !.selectedState = "",
     !.selectedLanguage = "",
     !.showTranslation = FALSE,
     !.currentQuestionIndex = 0,
     !.selectedAnswer = "",
     !.showResult = FALSE,
     !.correctAnswers = 0,
     !.userAnswers = <<>>,
     !.examQuestions = <<>>]

\* resetExam, the button of the finished screen
resetExam ==
  /\ Mounted /\ examState = "finished"
  /\ examState' = "setup"
  /\ selectedState' = ""
  /\ selectedLanguage' = ""
  /\ showTranslation' = FALSE
  /\ currentQuestionIndex' = 0
  /\ selectedAnswer' = ""
  /\ showResult' = FALSE
  /\ correctAnswers' = 0
  /\ userAnswers' = <<>>
  /\ examQuestions' = <<>>
  /\ toast' = ""
  /\ timers' = MarkStale(timers)
  /\ UNCHANGED pendingStarts
  /\ UNCHANGED <<samplerVars, trainingVars, normalizerVars, shuffleVars>>

ExamNext ==
  \/ \E s \in Regions : SelectState(s)
  \/ \E l \in Languages : SelectLanguage(l)
  \/ StartExamNoState
  \/ StartExamCall
  \/ \E i \in 1..MaxCallbacks, result \in ExamPromises : StartExamResume(i, result)
  \/ \E answer \in ExploredKeys : handleAnswerSelect(answer)
  \/ TimerFire
  \/ Back
  \/ ToggleTranslation
  \/ resetExam

(***************************************************************************)
(* generateExamQuestions on its own                                        *)
(***************************************************************************)

NoResponse == [error |-> FALSE, data |-> <<>>]

SamplerInit ==
  /\ samplerPc = "idle"
  /\ generalQuestions = NoResponse
  /\ stateQuestions = NoResponse
  /\ samplerResult = Rejected

\* the two awaited queries answer
SamplerFetch(general, state) ==
  /\ samplerPc = "idle"
  /\ samplerPc' = "fetched"
  /\ generalQuestions' = general
  /\ stateQuestions' = state
  /\ UNCHANGED samplerResult
  /\ UNCHANGED <<examVars, trainingVars, normalizerVars, shuffleVars>>

\* the checks, the three shuffles and the return (or the throw)
SamplerSettle(stream) ==
  /\ samplerPc = "fetched"
  /\ samplerPc' = "settled"
  /\ samplerResult' = generateExamQuestions(generalQuestions, stateQuestions, stream)
  /\ IF samplerResult'.ok
       THEN /\ generalQuestions' =
                 [generalQuestions EXCEPT !.data = ArrayAfterShuffle(@)]
            /\ stateQuestions' =
                 [stateQuestions EXCEPT !.data = ArrayAfterShuffle(@)]
       ELSE UNCHANGED <<generalQuestions, stateQuestions>>
  /\ UNCHANGED <<examVars, trainingVars, normalizerVars, shuffleVars>>

\* the next call
SamplerRestart ==
  /\ samplerPc = "settled"
  /\ samplerPc' = "idle"
  /\ generalQuestions' = NoResponse
  /\ stateQuestions' = NoResponse
  /\ samplerResult' = Rejected
  /\ UNCHANGED <<examVars, trainingVars, normalizerVars, shuffleVars>>

SamplerNext ==
  \/ \E general \in GeneralResponses, state \in StateResponses :
        SamplerFetch(general, state)
  \/ \E stream \in RandomStreams : SamplerSettle(stream)
  \/ SamplerRestart

(***************************************************************************)
(* Training component: state and effects                                   *)
(***************************************************************************)

\* bound of the explored question lists
MaxQuestions == 3

DigitChars == <<"0", "1", "2", "3", "4", "5", "6", "7", "8", "9">>

DigitValue(c) == (CHOOSE k \in 1..10 : DigitChars[k] = c) - 1

\* length of the longest prefix of s made of decimal digits
RECURSIVE LeadingDigits(_)
LeadingDigits(s) ==
  IF s # <<>> /\ s[1] \in {DigitChars[k] : k \in 1..10}
    THEN 1 + LeadingDigits(Tail(s))
    ELSE 0

\* the number a sequence of decimal digits denotes
RECURSIVE DigitsValue(_)
DigitsValue(s) ==
  IF s = <<>> THEN 0
  ELSE 10 * DigitsValue(SubSeq(s, 1, Len(s) - 1)) + DigitValue(s[Len(s)])

NaN == [nan |-> TRUE, value |-> 0]

\* parseInt(text) for a text without a 0x prefix: leading white space is
\* skipped, a sign is read, then the longest run of digits; whatever follows
\* is ignored and no digit at all gives NaN
parseInt(text) ==
  LET s == TrimStart(text)
      signed == s # <<>> /\ s[1] \in {"-", "+"}
      body == IF signed THEN Tail(s) ELSE s
      n == LeadingDigits(body)
      magnitude == DigitsValue(SubSeq(body, 1, n))
  IN  IF n = 0 THEN NaN
      ELSE [nan |-> FALSE,
            value |-> IF signed /\ s[1] = "-" THEN 0 - magnitude ELSE magnitude]

\* the texts the type="number" input hands to setJumpToQuestion in the
\* explored sessions: the integers 0..length+1, a negative one, a fraction
\* and a number in exponent notation
JumpInputs ==
  {<<DigitChars[n + 1]>> : n \in 0..(MaxQuestions + 1)}
    \cup {<<"-", "1">>, <<".", "5">>, <<"1", "e", "1">>}

TrainingLanguages == {"persisch", "englisch"}

SpeedModes == {"langsam", "schnell"}

\* const revealDelay = speedMode === "schnell" ? 10000 : 30000
revealDelay(mode) == IF mode = "schnell" THEN 10000 ELSE 30000

NoTimerId == 0

NoTimer == [id |-> NoTimerId, armedAt |-> 0, question |-> 0, delay |-> 0]

ToastQuestionsFailed == "Fehler beim Laden der Fragen"

\* the answers the query of fetchQuestions can get
TrainingResponses(stateSpecific) ==
  {FetchError, FetchOk(<<>>)}
    \cup {FetchOk(IF stateSpecific THEN StateRows(n) ELSE GeneralRows(n)) :
            n \in 1..MaxQuestions}

\* the main screen is rendered: neither the loading card nor the
\* "Keine Fragen" card, which carry none of the controls
Shown == ~loading /\ Len(trainingQuestions) > 0

\* an id setTimeout has not handed out to a timer still referred to
FreshTimerId ==
  LET used == {t.id : t \in revealTimers}
                \cup {answerTimer, effectCleanup}
                \cup {pendingFetches[k].answerTimer : k \in 1..Len(pendingFetches)}
  IN  CHOOSE i \in 1..(Cardinality(used) + 1) : i \notin used

\* clearTimeout(id)
ClearTimeout(timerSet, id) == {t \in timerSet : t.id # id}

\* faulty variant of RevealEffect: the cleanup of the previous run is missing
RevealEffectNoCleanup(timerSet, timerState, reloaded) ==
  IF ~reloaded
     /\ currentQuestion' = currentQuestion
     /\ showCorrectAnswer' = showCorrectAnswer
     /\ trainingSelectedAnswer' = trainingSelectedAnswer
     /\ revealDelay(speedMode') = revealDelay(speedMode)
    THEN /\ revealTimers' = timerSet
         /\ answerTimer' = timerState
         /\ UNCHANGED effectCleanup
    ELSE LET cleaned == timerSet
         IN  IF ~showCorrectAnswer' /\ trainingSelectedAnswer' = ""
                /\ currentQuestion' < Len(trainingQuestions')
               THEN LET timer == [id |-> FreshTimerId,
                                  armedAt |-> currentQuestion',
                                  question |-> trainingQuestions'[currentQuestion' + 1],
                                  delay |-> revealDelay(speedMode')]
                    IN  /\ revealTimers' = cleaned \cup {timer}
                        /\ answerTimer' = timer.id
                        /\ effectCleanup' = timer.id
               ELSE /\ revealTimers' = cleaned
                    /\ answerTimer' = timerState
                    /\ effectCleanup' = timerState

\* the auto-reveal effect after a render.  timerSet and timerState are the
\* outstanding timers and answerTimer as the handler left them, reloaded
\* tells that setQuestions stored a new array.  When a dependency changed
\* the cleanup of the previous run clears its timer, then the effect arms a
\* timer for an unanswered, unrevealed current question and stores its id.
RevealEffect(timerSet, timerState, reloaded) ==
  IF ~reloaded
     /\ currentQuestion' = currentQuestion
     /\ showCorrectAnswer' = showCorrectAnswer
     /\ trainingSelectedAnswer' = trainingSelectedAnswer
     /\ revealDelay(speedMode') = revealDelay(speedMode)
    THEN /\ revealTimers' = timerSet
         /\ answerTimer' = timerState
         /\ UNCHANGED effectCleanup
    ELSE LET cleaned == ClearTimeout(timerSet, effectCleanup)
         IN  IF ~showCorrectAnswer' /\ trainingSelectedAnswer' = ""
                /\ currentQuestion' < Len(trainingQuestions')
               THEN LET timer == [id |-> FreshTimerId,
                                  armedAt |-> currentQuestion',
                                  question |-> trainingQuestions'[currentQuestion' + 1],
                                  delay |-> revealDelay(speedMode')]
                    IN  /\ revealTimers' = cleaned \cup {timer}
                        /\ answerTimer' = timer.id
                        /\ effectCleanup' = timer.id
               ELSE /\ revealTimers' = cleaned
                    /\ answerTimer' = timerState
                    /\ effectCleanup' = timerState

\* the fetchQuestions effect after a render: it runs when isStateSpecific or
\* selectedState changed and calls fetchQuestions unless a region is still
\* to be chosen; the call sets loading and awaits its query.  timerState is
\* answerTimer of that render, which the closure keeps.
FetchEffect(timerState) ==
  IF (isStateSpecific' # isStateSpecific
        \/ trainingSelectedState' # trainingSelectedState)
     /\ (~isStateSpecific' \/ trainingSelectedState' # "")
    THEN /\ loading' = TRUE
         /\ pendingFetches' =
              Append(pendingFetches,
                     [stateSpecific |-> isStateSpecific',
                      state |-> trainingSelectedState',
                      answerTimer |-> timerState])
    ELSE UNCHANGED <<loading, pendingFetches>>

\* bound of the translation queries one explored session sends
MaxTranslationFetches == 2

NoTranslation == [questionId |-> 0, language |-> "", fetch |-> 0]

\* title of the toast of fetchTranslation's catch block
ToastTranslationFailed == "translation fetch failed"

\* `${questionId}:${lang}`
CacheKey(questionId, lang) == <<questionId, lang>>

\* data[0] of a translation query: the row of the question in the language;
\* fetch tells the response object apart from the one of another query
TranslationRow(questionId, lang, fetch) ==
  [questionId |-> questionId, language |-> lang, fetch |-> fetch]

\* what the translation query can give: an error, no row, a row
TranslationOutcomes == {"error", "empty", "row"}

NoCall == [questionId |-> 0, language |-> "", fetch |-> 0, outcome |-> "none"]

\* translationsCache.current[cacheKey] = row
CachePut(cache, key, row) ==
  [k \in DOMAIN cache \cup {key} |-> IF k = key THEN row ELSE cache[k]]

\* fetchTranslation(questionId, lang) up to its await: a cached row is set
\* and the call returns, otherwise translationLoading is set and the query
\* sent
fetchTranslation(questionId, lang) ==
  IF CacheKey(questionId, lang) \in DOMAIN translationsCache
    THEN /\ translation' = translationsCache[CacheKey(questionId, lang)]
         /\ lastTranslationCall' =
              [questionId |-> questionId, language |-> lang,
               fetch |-> 0, outcome |-> "hit"]
         /\ UNCHANGED <<translationLoading, translationsCache,
                        pendingTranslations, translationFetches>>
    ELSE /\ translationFetches < MaxTranslationFetches
         /\ translationLoading' = TRUE
         /\ translationFetches' = translationFetches + 1
         /\ pendingTranslations' =
              pendingTranslations \cup
                {[fetch |-> translationFetches + 1, questionId |-> questionId,
                  language |-> lang]}
         /\ lastTranslationCall' =
              [questionId |-> questionId, language |-> lang,
               fetch |-> translationFetches + 1, outcome |-> "pending"]
         /\ UNCHANGED <<translation, translationsCache>>

TranslationUnchanged == UNCHANGED translationVars

\* the translation effect after a render that left showTranslation = show,
\* selectedLanguage = lang, currentQuestion = index and questions = list;
\* changed tells that one of these dependencies differs from the render
\* before
TranslationEffect(show, lang, index, list, changed) ==
  IF ~changed THEN TranslationUnchanged
  ELSE IF show /\ index < Len(list)
    THEN fetchTranslation(list[index + 1], lang)
  ELSE IF ~show
    THEN /\ translation' = NoTranslation
         /\ UNCHANGED <<translationLoading, translationsCache,
                        pendingTranslations, translationFetches,
                        lastTranslationCall>>
  ELSE TranslationUnchanged

\* no query has stored rows yet
NoFilter == [stateSpecific |-> FALSE, state |-> "none"]

\* the state after the first render and its effects: fetchQuestions awaits
\* the general questions, the auto-reveal effect found no question
TrainingInit ==
  /\ currentQuestion = 0
  /\ trainingQuestions = <<>>
  /\ loading = TRUE
  /\ isStateSpecific = FALSE
  /\ trainingSelectedState = ""
  /\ trainingSelectedLanguage = "persisch"
  /\ trainingShowTranslation = FALSE
  /\ jumpToQuestion = <<>>
  /\ trainingSelectedAnswer = ""
  /\ showCorrectAnswer = FALSE
  /\ answerTimer = NoTimerId
  /\ speedMode = "langsam"
  /\ revealTimers = {}
  /\ effectCleanup = NoTimerId
  /\ pendingFetches =
       <<[stateSpecific |-> FALSE, state |-> "", answerTimer |-> NoTimerId]>>
  /\ firedTimer = NoTimer
  /\ trainingToast = ""
  /\ trainingEvent = "mount"
  /\ translation = NoTranslation
  /\ translationLoading = FALSE
  /\ translationsCache = [k \in {} |-> NoTranslation]
  /\ pendingTranslations = {}
  /\ translationFetches = 0
  /\ lastTranslationCall = NoCall
  /\ fetchHistory = [source |-> NoFilter, lastOk |-> FALSE]

(***************************************************************************)
(* Training component: handlers                                            *)
(***************************************************************************)

\* faulty variant of GoToQuestion: setTranslation(null) is missing
GoToQuestionKeepsTranslation(index) ==
  /\ currentQuestion' = index
  /\ trainingShowTranslation' = FALSE
  /\ trainingSelectedAnswer' = ""
  /\ showCorrectAnswer' = FALSE
  /\ UNCHANGED <<speedMode, trainingQuestions>>
  /\ RevealEffect(ClearTimeout(revealTimers, answerTimer), NoTimerId, FALSE)
  /\ UNCHANGED translationVars

\* setCurrentQuestion(index); setShowTranslation(false);
\* setTranslation(null); resetAnswerState()
\* as nextQuestion, prevQuestion and handleJumpToQuestion do, followed by
\* the effects of the render.  resetAnswerState clears the timer answerTimer
\* names and sets answerTimer to null.
GoToQuestion(index) ==
  /\ currentQuestion' = index
  /\ trainingShowTranslation' = FALSE
  /\ trainingSelectedAnswer' = ""
  /\ showCorrectAnswer' = FALSE
  /\ UNCHANGED <<speedMode, trainingQuestions>>
  /\ RevealEffect(ClearTimeout(revealTimers, answerTimer), NoTimerId, FALSE)
  /\ translation' = NoTranslation
  /\ UNCHANGED <<translationLoading, translationsCache, pendingTranslations,
                 translationFetches, lastTranslationCall>>

\* what a handler that returns at its guard leaves alone
TrainingUnchanged ==
  UNCHANGED <<currentQuestion, trainingQuestions, loading, isStateSpecific,
              trainingSelectedState, trainingSelectedLanguage,
              trainingShowTranslation, jumpToQuestion, trainingSelectedAnswer,
              showCorrectAnswer, answerTimer, speedMode, revealTimers,
              effectCleanup, pendingFetches, translationVars>>

\* faulty variant of nextQuestion: the bound is off by one
nextQuestionPastEnd ==
  /\ Shown
  /\ trainingEvent' = "nextQuestion"
  /\ firedTimer' = NoTimer /\ trainingToast' = ""
  /\ IF currentQuestion < Len(trainingQuestions)
       THEN /\ GoToQuestion(currentQuestion + 1)
            /\ UNCHANGED <<loading, isStateSpecific, trainingSelectedState,
                           trainingSelectedLanguage, jumpToQuestion,
                           pendingFetches>>
       ELSE TrainingUnchanged
  /\ UNCHANGED fetchHistory
  /\ UNCHANGED <<examVars, samplerVars, normalizerVars, shuffleVars>>

nextQuestion ==
  /\ Shown
  /\ trainingEvent' = "nextQuestion"
  /\ firedTimer' = NoTimer /\ trainingToast' = ""
  /\ IF currentQuestion < Len(trainingQuestions) - 1
       THEN /\ GoToQuestion(currentQuestion + 1)
            /\ UNCHANGED <<loading, isStateSpecific, trainingSelectedState,
                           trainingSelectedLanguage, jumpToQuestion,
                           pendingFetches>>
       ELSE TrainingUnchanged
  /\ UNCHANGED fetchHistory
  /\ UNCHANGED <<examVars, samplerVars, normalizerVars, shuffleVars>>

prevQuestion ==
  /\ Shown
  /\ trainingEvent' = "prevQuestion"
  /\ firedTimer' = NoTimer /\ trainingToast' = ""
  /\ IF currentQuestion > 0
       THEN /\ GoToQuestion(currentQuestion - 1)
            /\ UNCHANGED <<loading, isStateSpecific, trainingSelectedState,
                           trainingSelectedLanguage, jumpToQuestion,
                           pendingFetches>>
       ELSE TrainingUnchanged
  /\ UNCHANGED fetchHistory
  /\ UNCHANGED <<examVars, samplerVars, normalizerVars, shuffleVars>>

\* onChange of the "Frage Nr." input
SetJumpToQuestion(text) ==
  /\ Shown
  /\ text # jumpToQuestion
  /\ trainingEvent' = "setJumpToQuestion"
  /\ firedTimer' = NoTimer /\ trainingToast' = ""
  /\ jumpToQuestion' = text
  /\ UNCHANGED <<currentQuestion, trainingQuestions, loading, isStateSpecific,
                 trainingSelectedState, trainingSelectedLanguage,
                 trainingShowTranslation, trainingSelectedAnswer,
                 showCorrectAnswer, answerTimer, speedMode, revealTimers,
                 effectCleanup, pendingFetches, translationVars>>
  /\ UNCHANGED fetchHistory
  /\ UNCHANGED <<examVars, samplerVars, normalizerVars, shuffleVars>>

\* handleJumpToQuestion; its button is disabled while the input is empty
handleJumpToQuestion ==
  /\ Shown
  /\ jumpToQuestion # <<>>
  /\ trainingEvent' = "handleJumpToQuestion"
  /\ firedTimer' = NoTimer /\ trainingToast' = ""
  /\ LET questionNum == parseInt(jumpToQuestion)
     IN  IF ~questionNum.nan /\ questionNum.value >= 1
            /\ questionNum.value <= Len(trainingQuestions)
           THEN /\ GoToQuestion(questionNum.value - 1)
                /\ jumpToQuestion' = <<>>
                /\ UNCHANGED <<loading, isStateSpecific, trainingSelectedState,
                               trainingSelectedLanguage, pendingFetches>>
           ELSE TrainingUnchanged
  /\ UNCHANGED fetchHistory
  /\ UNCHANGED <<examVars, samplerVars, normalizerVars, shuffleVars>>

\* handleAnswerSelect of Training
trainingHandleAnswerSelect(answer) ==
  /\ Shown
  /\ trainingEvent' = "handleAnswerSelect"
  /\ firedTimer' = NoTimer /\ trainingToast' = ""
  /\ IF trainingSelectedAnswer # "" \/ showCorrectAnswer
       THEN TrainingUnchanged
       ELSE /\ trainingSelectedAnswer' = answer
            /\ showCorrectAnswer' = TRUE
            /\ UNCHANGED <<currentQuestion, speedMode, trainingQuestions>>
            /\ RevealEffect(ClearTimeout(revealTimers, answerTimer), NoTimerId, FALSE)
            /\ UNCHANGED <<loading, isStateSpecific, trainingSelectedState,
                           trainingSelectedLanguage, trainingShowTranslation,
                           jumpToQuestion, pendingFetches, translationVars>>
  /\ UNCHANGED fetchHistory
  /\ UNCHANGED <<examVars, samplerVars, normalizerVars, shuffleVars>>

\* the callback of a timer of the auto-reveal effect: setShowCorrectAnswer(true)
RevealTimerFire ==
  /\ \E timer \in revealTimers :
       /\ firedTimer' = timer
       /\ showCorrectAnswer' = TRUE
       /\ UNCHANGED <<currentQuestion, trainingSelectedAnswer, speedMode,
                      trainingQuestions>>
       /\ RevealEffect(revealTimers \ {timer}, answerTimer, FALSE)
  /\ trainingEvent' = "timer"
  /\ trainingToast' = ""
  /\ UNCHANGED <<loading, isStateSpecific, trainingSelectedState,
                 trainingSelectedLanguage, trainingShowTranslation,
                 jumpToQuestion, pendingFetches, translationVars>>
  /\ UNCHANGED fetchHistory
  /\ UNCHANGED <<examVars, samplerVars, normalizerVars, shuffleVars>>

\* <SpeedToggle mode={speedMode} onToggle={setSpeedMode} />
SetSpeedMode(mode) ==
  /\ Shown
  /\ mode # speedMode
  /\ trainingEvent' = "setSpeedMode"
  /\ firedTimer' = NoTimer /\ trainingToast' = ""
  /\ speedMode' = mode
  /\ UNCHANGED <<currentQuestion, trainingSelectedAnswer, showCorrectAnswer,
                 trainingQuestions>>
  /\ RevealEffect(revealTimers, answerTimer, FALSE)
  /\ UNCHANGED <<loading, isStateSpecific, trainingSelectedState,
                 trainingSelectedLanguage, trainingShowTranslation,
                 jumpToQuestion, pendingFetches, translationVars>>
  /\ UNCHANGED fetchHistory
  /\ UNCHANGED <<examVars, samplerVars, normalizerVars, shuffleVars>>

\* faulty variant of handleQuestionTypeChange: the switch is also rendered
\* while the questions load
handleQuestionTypeChangeWhileLoading(checked) ==
  /\ Len(trainingQuestions) > 0
  /\ checked # isStateSpecific
  /\ trainingEvent' = "handleQuestionTypeChange"
  /\ firedTimer' = NoTimer /\ trainingToast' = ""
  /\ isStateSpecific' = checked
  /\ trainingSelectedState' = ""
  /\ currentQuestion' = 0
  /\ UNCHANGED <<trainingSelectedAnswer, showCorrectAnswer, speedMode,
                 trainingQuestions>>
  /\ FetchEffect(answerTimer)
  /\ RevealEffect(revealTimers, answerTimer, FALSE)
  /\ TranslationEffect(trainingShowTranslation, trainingSelectedLanguage, 0,
                       trainingQuestions, currentQuestion # 0)
  /\ UNCHANGED <<trainingSelectedLanguage, trainingShowTranslation, jumpToQuestion>>
  /\ UNCHANGED fetchHistory
  /\ UNCHANGED <<examVars, samplerVars, normalizerVars, shuffleVars>>

\* handleQuestionTypeChange, the onCheckedChange of the switch
handleQuestionTypeChange(checked) ==
  /\ Shown
  /\ checked # isStateSpecific
  /\ trainingEvent' = "handleQuestionTypeChange"
  /\ firedTimer' = NoTimer /\ trainingToast' = ""
  /\ isStateSpecific' = checked
  /\ trainingSelectedState' = ""
  /\ currentQuestion' = 0
  /\ UNCHANGED <<trainingSelectedAnswer, showCorrectAnswer, speedMode,
                 trainingQuestions>>
  /\ FetchEffect(answerTimer)
  /\ RevealEffect(revealTimers, answerTimer, FALSE)
  /\ TranslationEffect(trainingShowTranslation, trainingSelectedLanguage, 0,
                       trainingQuestions, currentQuestion # 0)
  /\ UNCHANGED <<trainingSelectedLanguage, trainingShowTranslation, jumpToQuestion>>
  /\ UNCHANGED fetchHistory
  /\ UNCHANGED <<examVars, samplerVars, normalizerVars, shuffleVars>>

\* <Select value={selectedState} onValueChange={setSelectedState}>, rendered
\* while isStateSpecific
TrainingSelectState(s) ==
  /\ Shown
  /\ isStateSpecific
  /\ s # trainingSelectedState
  /\ trainingEvent' = "setSelectedState"
  /\ firedTimer' = NoTimer /\ trainingToast' = ""
  /\ trainingSelectedState' = s
  /\ UNCHANGED <<isStateSpecific, currentQuestion, trainingSelectedAnswer,
                 showCorrectAnswer, speedMode, trainingQuestions>>
  /\ FetchEffect(answerTimer)
  /\ RevealEffect(revealTimers, answerTimer, FALSE)
  /\ UNCHANGED <<trainingSelectedLanguage, trainingShowTranslation, jumpToQuestion,
                 translationVars>>
  /\ UNCHANGED fetchHistory
  /\ UNCHANGED <<examVars, samplerVars, normalizerVars, shuffleVars>>

\* <Select value={selectedLanguage} onValueChange={setSelectedLanguage}>
TrainingSelectLanguage(l) ==
  /\ Shown
  /\ l # trainingSelectedLanguage
  /\ trainingEvent' = "setSelectedLanguage"
  /\ firedTimer' = NoTimer /\ trainingToast' = ""
  /\ trainingSelectedLanguage' = l
  /\ UNCHANGED <<currentQuestion, trainingQuestions, loading, isStateSpecific,
                 trainingSelectedState, trainingShowTranslation, jumpToQuestion,
                 trainingSelectedAnswer, showCorrectAnswer, answerTimer,
                 speedMode, revealTimers, effectCleanup, pendingFetches>>
  /\ TranslationEffect(trainingShowTranslation, l, currentQuestion,
                       trainingQuestions, TRUE)
  /\ UNCHANGED fetchHistory
  /\ UNCHANGED <<examVars, samplerVars, normalizerVars, shuffleVars>>

\* onClick={() => setShowTranslation(!showTranslation)}, rendered while a
\* language is selected
TrainingToggleTranslation ==
  /\ Shown
  /\ trainingSelectedLanguage # ""
  /\ trainingEvent' = "setShowTranslation"
  /\ firedTimer' = NoTimer /\ trainingToast' = ""
  /\ trainingShowTranslation' = ~trainingShowTranslation
  /\ UNCHANGED <<currentQuestion, trainingQuestions, loading, isStateSpecific,
                 trainingSelectedState, trainingSelectedLanguage, jumpToQuestion,
                 trainingSelectedAnswer, showCorrectAnswer, answerTimer,
                 speedMode, revealTimers, effectCleanup, pendingFetches>>
  /\ TranslationEffect(~trainingShowTranslation, trainingSelectedLanguage,
                       currentQuestion, trainingQuestions, TRUE)
  /\ UNCHANGED fetchHistory
  /\ UNCHANGED <<examVars, samplerVars, normalizerVars, shuffleVars>>

\* faulty variant of FetchTranslationDone: a failed query leaves an entry in
\* the cache
FetchTranslationDoneCachesError(outcome) ==
  /\ \E call \in pendingTranslations :
       LET row == TranslationRow(call.questionId, call.language, call.fetch)
       IN  /\ pendingTranslations' = pendingTranslations \ {call}
           /\ translationLoading' = FALSE
           /\ translation' = IF outcome = "row" THEN row ELSE NoTranslation
           /\ translationsCache' =
                IF outcome \in {"row", "error"}
                  THEN CachePut(translationsCache,
                                CacheKey(call.questionId, call.language), row)
                  ELSE translationsCache
           /\ trainingToast' =
                IF outcome = "error" THEN ToastTranslationFailed ELSE ""
           /\ lastTranslationCall' =
                IF lastTranslationCall.fetch = call.fetch
                  THEN [lastTranslationCall EXCEPT !.outcome = outcome]
                  ELSE lastTranslationCall
  /\ trainingEvent' = "fetchTranslation"
  /\ firedTimer' = NoTimer
  /\ UNCHANGED translationFetches
  /\ UNCHANGED <<currentQuestion, trainingQuestions, loading, isStateSpecific,
                 trainingSelectedState, trainingSelectedLanguage,
                 trainingShowTranslation, jumpToQuestion, trainingSelectedAnswer,
                 showCorrectAnswer, answerTimer, speedMode, revealTimers,
                 effectCleanup, pendingFetches>>
  /\ UNCHANGED fetchHistory
  /\ UNCHANGED <<examVars, samplerVars, normalizerVars, shuffleVars>>

\* the callback of a translation query (fetchTranslation after its await):
\* a row is cached and set, no row or an error sets null, an error is
\* reported; finally translationLoading is cleared
FetchTranslationDone(outcome) ==
  /\ \E call \in pendingTranslations :
       LET row == TranslationRow(call.questionId, call.language, call.fetch)
       IN  /\ pendingTranslations' = pendingTranslations \ {call}
           /\ translationLoading' = FALSE
           /\ translation' = IF outcome = "row" THEN row ELSE NoTranslation
           /\ translationsCache' =
                IF outcome = "row"
                  THEN CachePut(translationsCache,
                                CacheKey(call.questionId, call.language), row)
                  ELSE translationsCache
           /\ trainingToast' =
                IF outcome = "error" THEN ToastTranslationFailed ELSE ""
           /\ lastTranslationCall' =
                IF lastTranslationCall.fetch = call.fetch
                  THEN [lastTranslationCall EXCEPT !.outcome = outcome]
                  ELSE lastTranslationCall
  /\ trainingEvent' = "fetchTranslation"
  /\ firedTimer' = NoTimer
  /\ UNCHANGED translationFetches
  /\ UNCHANGED <<currentQuestion, trainingQuestions, loading, isStateSpecific,
                 trainingSelectedState, trainingSelectedLanguage,
                 trainingShowTranslation, jumpToQuestion, trainingSelectedAnswer,
                 showCorrectAnswer, answerTimer, speedMode, revealTimers,
                 effectCleanup, pendingFetches>>
  /\ UNCHANGED fetchHistory
  /\ UNCHANGED <<examVars, samplerVars, normalizerVars, shuffleVars>>

\* fetchQuestions after its await: the rows are stored and the position and
\* the per-question state reset, or the error is reported; finally loading
\* is cleared.  answerTimer is the one of the closure.
FetchQuestionsDone(response) ==
  /\ pendingFetches # <<>>
  /\ response \in TrainingResponses(Head(pendingFetches).stateSpecific)
  /\ pendingFetches' = Tail(pendingFetches)
  /\ loading' = FALSE
  /\ trainingEvent' = "fetchQuestions"
  /\ firedTimer' = NoTimer
  /\ UNCHANGED <<isStateSpecific, trainingSelectedState, trainingSelectedLanguage,
                 jumpToQuestion, speedMode>>
  /\ IF response.error
       THEN /\ trainingToast' = ToastQuestionsFailed
            /\ UNCHANGED <<currentQuestion, trainingQuestions,
                           trainingShowTranslation, trainingSelectedAnswer,
                           showCorrectAnswer, answerTimer, revealTimers,
                           effectCleanup, translationVars>>
       ELSE /\ trainingToast' = ""
            /\ trainingQuestions' = response.data
            /\ currentQuestion' = 0
            /\ trainingShowTranslation' = FALSE
            /\ trainingSelectedAnswer' = ""
            /\ showCorrectAnswer' = FALSE
            /\ RevealEffect(ClearTimeout(revealTimers, Head(pendingFetches).answerTimer),
                            IF Head(pendingFetches).answerTimer # NoTimerId
                              THEN NoTimerId ELSE answerTimer,
                            TRUE)
            /\ TranslationEffect(FALSE, trainingSelectedLanguage, 0,
                                 response.data, TRUE)
  /\ fetchHistory' =
       [source |-> IF response.error THEN fetchHistory.source
                   ELSE [stateSpecific |-> Head(pendingFetches).stateSpecific,
                         state |-> Head(pendingFetches).state],
        lastOk |-> ~response.error]
  /\ UNCHANGED <<examVars, samplerVars, normalizerVars, shuffleVars>>

TrainingNext ==
  \/ nextQuestion
  \/ prevQuestion
  \/ \E text \in JumpInputs \cup {<<>>} : SetJumpToQuestion(text)
  \/ handleJumpToQuestion
  \/ \E answer \in AnswerKeys : trainingHandleAnswerSelect(answer)
  \/ RevealTimerFire
  \/ \E mode \in SpeedModes : SetSpeedMode(mode)
  \/ \E checked \in BOOLEAN : handleQuestionTypeChange(checked)
  \/ \E s \in Regions : TrainingSelectState(s)
  \/ \E response \in TrainingResponses(TRUE) \cup TrainingResponses(FALSE) :
        FetchQuestionsDone(response)

\* the number typed into the "Frage Nr." input in the sessions that follow
\* the translation
TranslationJumpInputs == {<<"1">>}

\* the answers of the question query in those sessions: two questions
TranslationListResponses == {FetchOk(GeneralRows(2))}

\* the steps of the sessions that follow the translation: the list loads,
\* the user moves between questions, answers, toggles the translation and
\* changes the language, and translation queries return
TranslationNext ==
  \/ nextQuestion
  \/ prevQuestion
  \/ \E text \in TranslationJumpInputs : SetJumpToQuestion(text)
  \/ handleJumpToQuestion
  \/ \E answer \in {"a"} : trainingHandleAnswerSelect(answer)
  \/ \E l \in TrainingLanguages : TrainingSelectLanguage(l)
  \/ TrainingToggleTranslation
  \/ \E response \in TranslationListResponses : FetchQuestionsDone(response)
  \/ \E outcome \in TranslationOutcomes : FetchTranslationDone(outcome)

(***************************************************************************)
(* normalizeCorrectOption on its own                                       *)
(***************************************************************************)

TextZwei == <<"Z", "w", "e", "i">>
TextJaPadded == <<" ", "J", "a", " ">>
TokenOptionA == <<"o", "p", "t", "i", "o", "n", "_", "a">>

\* the questions of the explored calls: the options of the repository rows,
\* options none of which begins with a letter a-d, options with a repeated
\* and an empty text, options that look like a digit or a token, and no
\* question
NormalizerQuestions ==
  {[option_a |-> TextBerlin, option_b |-> TextEins,
    option_c |-> TextNein, option_d |-> TextDie],
   [option_a |-> TextEins, option_b |-> TextZwei,
    option_c |-> TextNein, option_d |-> TextJaPadded],
   [option_a |-> TextEins, option_b |-> TextEins,
    option_c |-> TextNein, option_d |-> <<>>],
   [option_a |-> <<"4">>, option_b |-> TextZwei,
    option_c |-> TokenOptionA, option_d |-> <<"x">>],
   NoQuestion}

\* the raw correct_option values of the explored calls
NormalizerValues ==
  {NullValue, <<>>, <<" ">>, <<" ", " ">>,
   <<"a">>, <<"b">>, <<"c">>, <<"d">>, <<"A">>, <<"B">>, <<"D">>,
   <<" ", "c", " ">>, <<"d", " ">>,
   <<"1">>, <<"2">>, <<"3">>, <<"4">>, <<"0">>, <<"5">>, <<"7">>, <<" ", "2">>,
   TokenOptionA,
   <<"o", "p", "t", "i", "o", "n", "_", "b">>,
   <<"O", "p", "t", "i", "o", "n", "_", "C">>,
   <<"O", "P", "T", "I", "O", "N", "_", "D">>,
   <<"o", "p", "t", "i", "o", "n", "_", "e">>,
   <<"o", "p", "t", "i", "o", "n", "_">>,
   TextBerlin, TextEins, TextNein, TextDie, TextZwei, TextJaPadded,
   <<"j", "a">>, <<"e">>, <<"x">>, <<"x", "a">>,
   <<"a", "p", "p", "l", "e">>}

NormalizerInit ==
  /\ normalizerPc = "idle"
  /\ normalizerValue = NullValue
  /\ normalizerQuestion = NoQuestion
  /\ normalizerResult = None

\* one call and its return
NormalizerCall(value, q) ==
  /\ normalizerPc' = "returned"
  /\ normalizerValue' = value
  /\ normalizerQuestion' = q
  /\ normalizerResult' = normalizeCorrectOption(value, q)
  /\ UNCHANGED <<examVars, samplerVars, trainingVars, shuffleVars>>

NormalizerNext ==
  \E value \in NormalizerValues, q \in NormalizerQuestions : NormalizerCall(value, q)

(***************************************************************************)
(* shuffleArray on its own                                                 *)
(***************************************************************************)

\* bound of the length of the explored arrays
MaxShuffleLen == 3

\* the elements of the explored arrays; an array may hold one more than once
ShuffleElements == {"x", "y", "z"}

ShuffleArrays ==
  UNION {[1..n -> ShuffleElements] : n \in 0..MaxShuffleLen}

ShuffleInit ==
  /\ shufflePc = "idle"
  /\ shuffleInput = <<>>
  /\ shuffleArgument = <<>>
  /\ shuffleOutput = <<>>

\* one call and its return; stream holds the values Math.random() returns
ShuffleCall(array, stream) ==
  /\ shufflePc = "idle"
  /\ shufflePc' = "returned"
  /\ shuffleInput' = array
  /\ shuffleArgument' = ArrayAfterShuffle(array)
  /\ shuffleOutput' = shuffleArray(array, stream, 0)
  /\ UNCHANGED <<examVars, samplerVars, trainingVars, normalizerVars>>

ShuffleNext ==
  \E array \in ShuffleArrays, stream \in RandomStreams : ShuffleCall(array, stream)

Init ==
  ExamInit /\ SamplerInit /\ TrainingInit /\ NormalizerInit /\ ShuffleInit

Next == ExamNext

Spec == Init /\ [][Next]_vars

NextSampler == SamplerNext

SpecSampler == Init /\ [][NextSampler]_vars

NextTraining == TrainingNext

SpecTraining == Init /\ [][NextTraining]_vars

\* the steps of the exam sessions in which Back is never pressed
ExamNoBackNext ==
  \/ \E s \in Regions : SelectState(s)
  \/ \E l \in Languages : SelectLanguage(l)
  \/ StartExamNoState
  \/ StartExamCall
  \/ \E i \in 1..MaxCallbacks, result \in ExamPromises : StartExamResume(i, result)
  \/ \E answer \in ExploredKeys : handleAnswerSelect(answer)
  \/ TimerFire
  \/ ToggleTranslation
  \/ resetExam

NextExamNoBack == ExamNoBackNext

\* the user clicks an option card of the question presented
AnswerPresented == \E answer \in ExploredKeys : handleAnswerSelect(answer)

\* those sessions with every armed timer firing and every presented question
\* answered in the end
SpecExamAnswered ==
  /\ Init /\ [][NextExamNoBack]_vars
  /\ WF_vars(TimerFire)
  /\ WF_vars(AnswerPresented)

NextTranslation == TranslationNext

SpecTranslation == Init /\ [][NextTranslation]_vars

NextShuffle == ShuffleNext

SpecShuffle == Init /\ [][NextShuffle]_vars

NextNormalizer == NormalizerNext

SpecNormalizer == Init /\ [][NextNormalizer]_vars

(***************************************************************************)
(* Properties of the exam flow                                             *)
(***************************************************************************)

ExamLength == GeneralCount + StateCount

\* the elements of a sequence
Range(seq) == {seq[k] : k \in 1..Len(seq)}

\* no element occurs at two positions
NoRepeat(seq) == \A i, j \in 1..Len(seq) : seq[i] = seq[j] => i = j

\* the step is an execution of handleAnswerSelect past its guard
AnswerStep == selectedAnswer = "" /\ selectedAnswer' # ""

\* the step is the resumption of a pending startExam
ResumeStep == Len(pendingStarts') < Len(pendingStarts)

\* C1: answer submission adds exactly one to the score if and only if the
\* selected key equals the canonical key that normalizeCorrectOption gives
\* for the current question's raw correct_option; otherwise the score is
\* unchanged.
C1_ScoreIffNormalizedKeyMatches ==
  [][AnswerStep =>
       LET q == Question(examQuestions[currentQuestionIndex + 1])
       IN  correctAnswers' =
             IF selectedAnswer' = normalizeCorrectOption(q.correct_option, q)
               THEN correctAnswers + 1 ELSE correctAnswers]_vars

\* C2: in a finished session the outcome is passed exactly when the score is
\* at least 17 (17 passes, 16 does not).
C2_PassedIffAtLeast17 ==
  examState = "finished" => (passed <=> correctAnswers >= 17)

\* a session finished with exactly 17 correct answers
C2_Witness == examState = "finished" /\ correctAnswers = 17 /\ passed

\* both queries succeeded with at least 30 general and 3 region rows
PoolsSuffice ==
  /\ ~generalQuestions.error /\ ~stateQuestions.error
  /\ Len(generalQuestions.data) >= 30
  /\ Len(stateQuestions.data) >= 3

\* questions is made of 3 entries from distinct positions of statePool and
\* 30 entries from distinct positions of generalPool (no pool holds a row twice)
Composed(questions, generalPool, statePool) ==
  \E i, j, k \in 1..Len(questions) :
    /\ i < j /\ j < k
    /\ LET fromState == <<questions[i], questions[j], questions[k]>>
           rest == {n \in 1..Len(questions) : n \notin {i, j, k}}
       IN  /\ NoRepeat(fromState)
           /\ Range(fromState) \subseteq Range(statePool)
           /\ Cardinality(rest) = 30
           /\ Cardinality({questions[n] : n \in rest}) = 30
           /\ {questions[n] : n \in rest} \subseteq Range(generalPool)

\* C3: with at least 30 general rows and 3 region rows fetched,
\* generateExamQuestions returns exactly 33 questions, 30 from distinct
\* positions of the general pool and 3 from distinct positions of the region
\* pool, whatever the shuffles draw.
C3_SampleIs30Plus3 ==
  (samplerPc = "settled" /\ PoolsSuffice) =>
    /\ samplerResult.ok
    /\ Len(samplerResult.questions) = 33
    /\ Composed(samplerResult.questions, generalQuestions.data, stateQuestions.data)

\* a sample drawn from pools larger than the sample
C3_Witness ==
  /\ samplerPc = "settled" /\ samplerResult.ok
  /\ Len(generalQuestions.data) > 30
  /\ Len(stateQuestions.data) > 3

\* C4: generateExamQuestions fails whenever the general pool has fewer than
\* 30 rows or the region pool fewer than 3; whether it fails is decided by
\* the two responses alone, whatever the shuffles draw, and the fetched
\* pools are what they were before the call.
C4_FailsOnSmallPools ==
  [][(samplerPc = "fetched" /\ samplerPc' = "settled") =>
       /\ samplerResult'.ok = PoolsSuffice
       /\ generalQuestions' = generalQuestions
       /\ stateQuestions' = stateQuestions]_vars

\* a call that failed on a region pool of two rows
C4_Witness ==
  /\ samplerPc = "settled" /\ ~samplerResult.ok
  /\ ~generalQuestions.error /\ ~stateQuestions.error
  /\ Len(generalQuestions.data) >= 30
  /\ Len(stateQuestions.data) = 2

\* a full sample: 33 rows, 30 general and 3 region ones
IsFullSample(questions) ==
  /\ Len(questions) = 33
  /\ Cardinality({k \in 1..Len(questions) : questions[k] <= StateIdBase}) = 30
  /\ Cardinality({k \in 1..Len(questions) : questions[k] > StateIdBase}) = 3

C6_NoRegionNoStart ==
  /\ [][toast' = ToastNoState =>
          /\ selectedState = ""
          /\ UNCHANGED <<examState, sessionVars, pendingStarts, selectedState>>]_vars
  /\ [][Len(pendingStarts') > Len(pendingStarts) =>
          /\ selectedState # ""
          /\ pendingStarts' = Append(pendingStarts, [stateId |-> selectedState])]_vars
  /\ [][(examState # "running" /\ examState' = "running") =>
          \E i \in 1..Len(pendingStarts) :
            /\ pendingStarts[i].stateId # ""
            /\ pendingStarts' = RemoveAt(pendingStarts, i)]_vars

\* startExam was just invoked with no region selected
C6_Witness ==
  /\ toast = ToastNoState
  /\ examState = "setup" /\ selectedState = ""
  /\ pendingStarts = <<>>

\* C7: in every running state the position is an index of the sequence.
C7_PositionInRange ==
  examState = "running" =>
    (0 <= currentQuestionIndex /\ currentQuestionIndex < Len(examQuestions))

\* C8: once the session has left running, no timer armed in it has an
\* effect: in setup no step changes the position or the per-question state
\* unless it starts a session, and setup is never followed by finished.
C8_NoTimerEffectAfterLeaving ==
  [][examState = "setup" =>
       /\ examState' \in {"setup", "running"}
       /\ (examState' = "setup" =>
             UNCHANGED <<currentQuestionIndex, selectedAnswer, showResult>>)]_vars

\* C9: the sequence of a running session never changes, and a startExam that
\* resumes while the session is running replaces neither the sequence nor
\* the position nor the score.
C9_RunningSequenceFixed ==
  [][(examState = "running" /\ examState' = "running") =>
       /\ examQuestions' = examQuestions
       /\ (ResumeStep => UNCHANGED <<currentQuestionIndex, correctAnswers>>)]_vars

\* C10: finished is entered only from running, only with the position at
\* the last question and that question answered, and only when every
\* position 0..32 has a recorded answer.
C10_FinishedOnlyAfterAllAnswered ==
  [][(examState # "finished" /\ examState' = "finished") =>
       /\ examState = "running"
       /\ currentQuestionIndex = 32
       /\ selectedAnswer # ""
       /\ Len(userAnswers) = 33
       /\ \A k \in 1..Len(userAnswers) : userAnswers[k] \in AnswerKeys]_vars

\* C11: while the phase stays finished neither the score nor the outcome
\* changes; finished is only left for setup, by resetExam (every field back
\* at its initial value), and never for running.
C11_FinishedIsFinal ==
  [][examState = "finished" =>
       /\ examState' \in {"finished", "setup"}
       /\ (examState' = "finished" =>
             correctAnswers' = correctAnswers /\ passed' = passed)
       /\ (examState' = "setup" =>
             correctAnswers' = 0 /\ examQuestions' = <<>> /\ userAnswers' = <<>>)]_vars

\* C12: the score never exceeds the position plus one, and while an answer
\* is selected or revealed no step raises the score or writes the answer
\* record (a reset may clear them).
C12_ScoreAtMostVisited ==
  /\ [](correctAnswers <= currentQuestionIndex + 1)
  /\ [][(selectedAnswer # "" \/ showResult) =>
          /\ correctAnswers' <= correctAnswers
          /\ userAnswers' \in {userAnswers, <<>>}]_vars

\* every question so far answered correctly, the current one revealed
C12_Witness ==
  /\ examState = "running" /\ showResult
  /\ currentQuestionIndex = 2
  /\ correctAnswers = currentQuestionIndex + 1

\* C13: a sequence returned by generateExamQuestions holds no question
\* identifier twice, whatever pair of duplicate-free pools the two queries
\* returned.
C13_NoDuplicateIds ==
  (samplerPc = "settled" /\ samplerResult.ok
     /\ NoRepeat(generalQuestions.data) /\ NoRepeat(stateQuestions.data)) =>
    NoRepeat(samplerResult.questions)

(***************************************************************************)
(* Properties of the training flow                                         *)
(***************************************************************************)

\* the current question exists
HasCurrentQuestion == currentQuestion < Len(trainingQuestions)

\* position, selected answer, reveal flag, translation visibility and timer
PerQuestionState ==
  <<currentQuestion, trainingSelectedAnswer, showCorrectAnswer,
    trainingShowTranslation, revealTimers, answerTimer>>

\* C14: nextQuestion at the last index and prevQuestion at index 0 change
\* nothing of the per-question state; elsewhere they move the position by
\* exactly +1 and -1; the position of a non-empty list stays within
\* 0..length-1.
C14_NavigationStaysInRange ==
  /\ [][trainingEvent' = "nextQuestion" =>
          IF currentQuestion < Len(trainingQuestions) - 1
            THEN currentQuestion' = currentQuestion + 1
            ELSE UNCHANGED PerQuestionState]_vars
  /\ [][trainingEvent' = "prevQuestion" =>
          IF currentQuestion > 0
            THEN currentQuestion' = currentQuestion - 1
            ELSE UNCHANGED PerQuestionState]_vars
  /\ [](Len(trainingQuestions) > 0 =>
          (0 <= currentQuestion /\ currentQuestion < Len(trainingQuestions)))

\* nextQuestion was just called at the last index of a revealed question
C14_Witness ==
  /\ trainingEvent = "nextQuestion"
  /\ Len(trainingQuestions) >= 2
  /\ currentQuestion = Len(trainingQuestions) - 1
  /\ showCorrectAnswer

RECURSIVE Pow10(_)
Pow10(n) == IF n = 0 THEN 1 ELSE 10 * Pow10(n - 1)

\* the number a decimal numeral [-]digits[.digits][e digits] denotes, as the
\* fraction num / den
RequestedNumber(text) ==
  LET negative == text # <<>> /\ text[1] = "-"
      body == IF negative THEN Tail(text) ELSE text
      ip == LeadingDigits(body)
      afterInt == SubSeq(body, ip + 1, Len(body))
      hasFrac == afterInt # <<>> /\ afterInt[1] = "."
      fp == IF hasFrac THEN LeadingDigits(Tail(afterInt)) ELSE 0
      afterFrac == IF hasFrac THEN SubSeq(afterInt, fp + 2, Len(afterInt))
                   ELSE afterInt
      hasExp == afterFrac # <<>> /\ afterFrac[1] = "e"
      exponent == IF hasExp THEN DigitsValue(Tail(afterFrac)) ELSE 0
      digits == SubSeq(body, 1, ip)
                  \o (IF hasFrac THEN SubSeq(afterInt, 2, fp + 1) ELSE <<>>)
      magnitude == DigitsValue(digits) * Pow10(exponent)
  IN  [num |-> IF negative THEN 0 - magnitude ELSE magnitude, den |-> Pow10(fp)]

\* C15: handleJumpToQuestion with the requested number n sets the position
\* to n-1 if and only if n is an integer with 1 <= n <= questions.length;
\* for every other request the position and the per-question state are
\* unchanged; no notification is raised.
C15_JumpOnlyInRange ==
  [][trainingEvent' = "handleJumpToQuestion" =>
       LET r == RequestedNumber(jumpToQuestion)
           n == r.num \div r.den
       IN  /\ trainingToast' = ""
           /\ IF r.num % r.den = 0 /\ n >= 1 /\ n <= Len(trainingQuestions)
                THEN currentQuestion' = n - 1
                ELSE UNCHANGED PerQuestionState]_vars

\* C16: exactly one auto-reveal timer is outstanding while the current
\* question exists, is unanswered and is not revealed; none is outstanding
\* while it is answered or revealed.
C16_OneTimerWhileUnanswered ==
  /\ (HasCurrentQuestion /\ trainingSelectedAnswer = "" /\ ~showCorrectAnswer)
        => Cardinality(revealTimers) = 1
  /\ (trainingSelectedAnswer # "" \/ showCorrectAnswer) => revealTimers = {}

\* C17: a timer that fires was armed for the question now current, at the
\* position now current, no answer is selected for it, and it fires on a
\* question not yet revealed.
C17_NoStaleReveal ==
  /\ [](firedTimer # NoTimer =>
          /\ HasCurrentQuestion
          /\ firedTimer.armedAt = currentQuestion
          /\ firedTimer.question = trainingQuestions[currentQuestion + 1]
          /\ trainingSelectedAnswer = "")
  /\ [][trainingEvent' = "timer" => ~showCorrectAnswer]_vars

\* a timer armed after a move to the second question revealed it
C17_Witness ==
  /\ firedTimer # NoTimer
  /\ currentQuestion = 1
  /\ showCorrectAnswer /\ trainingSelectedAnswer = ""

\* C18: switching the speed preset leaves the armed timer alone: it is
\* neither cleared nor re-armed and keeps its delay.
C18_SpeedSwitchKeepsTimer ==
  [][speedMode' # speedMode => revealTimers' = revealTimers]_vars


(***************************************************************************)
(* Properties of the answer normaliser                                     *)
(***************************************************************************)

\* the four option texts of a question, in key order
OptionTexts(q) == <<q.option_a, q.option_b, q.option_c, q.option_d>>

HasFourOptionTexts(q) ==
  /\ q # NoQuestion
  /\ \A k \in 1..4 : OptionTexts(q)[k] # <<>>

\* a letter a-d in either case with optional surrounding whitespace
IsLetterValue(value) ==
  /\ value # NullValue
  /\ Len(Trim(value)) = 1
  /\ LowerChar(Trim(value)[1]) \in Letters

\* a digit 1-4
IsDigitValue(value) == \E k \in 1..4 : value = <<Digits[k]>>

\* option_<letter> in either case, the letter one of a-d
IsTokenValue(value) ==
  /\ value # NullValue
  /\ Len(value) = Len(OptionPrefix) + 1
  /\ ToLowerCase(SubSeq(value, 1, Len(OptionPrefix))) = OptionPrefix
  /\ LowerChar(value[Len(value)]) \in Letters

Returned == normalizerPc = "returned"

\* C19: for a question with four option texts, a letter value gives that
\* letter, the digit k gives the k-th key, an option_<letter> token gives its
\* trailing letter, and a value that is the exact text of an option (and is
\* none of the three forms before) gives the key of an option carrying it.
C19_ReturnsDenotedKey ==
  (Returned /\ HasFourOptionTexts(normalizerQuestion)) =>
    /\ IsLetterValue(normalizerValue) =>
         normalizerResult = LowerChar(Trim(normalizerValue)[1])
    /\ \A k \in 1..4 : normalizerValue = <<Digits[k]>> =>
         normalizerResult = OptionKeys[k]
    /\ IsTokenValue(normalizerValue) =>
         normalizerResult = LowerChar(normalizerValue[Len(normalizerValue)])
    /\ ( /\ ~IsLetterValue(normalizerValue)
         /\ ~IsDigitValue(normalizerValue)
         /\ ~IsTokenValue(normalizerValue)
         /\ \E k \in 1..4 : OptionTexts(normalizerQuestion)[k] = normalizerValue )
       => \E k \in 1..4 :
            /\ OptionTexts(normalizerQuestion)[k] = normalizerValue
            /\ normalizerResult = OptionKeys[k]

\* no rule of the normaliser applies to the value: it is absent or blank, or
\* its trimmed lower-cased form is no letter a-d, no digit 1-4, no option_
\* token ending in a-d, does not begin with a-d, and is the trimmed
\* lower-cased text of no option
MatchesNoRule(value, q) ==
  \/ value = NullValue
  \/ LET raw == ToLowerCase(Trim(value)) IN
       \/ raw = <<>>
       \/ /\ raw[1] \notin Letters
          /\ ~(Len(raw) = 1 /\ \E k \in 1..4 : raw[1] = Digits[k])
          /\ ~(StartsWith(raw, OptionPrefix) /\ raw[Len(raw)] \in Letters)
          /\ \/ q = NoQuestion
             \/ \A k \in 1..4 :
                  \/ OptionTexts(q)[k] = <<>>
                  \/ ToLowerCase(Trim(OptionTexts(q)[k])) # raw

\* C20: every call returns a key or none, and it returns none when the value
\* is null, undefined, empty or whitespace-only or matches none of the rules.
C20_NoneWhenUnrecognized ==
  Returned =>
    /\ normalizerResult \in Letters \cup {None}
    /\ MatchesNoRule(normalizerValue, normalizerQuestion) =>
         normalizerResult = None

\* a non-blank value no rule applies to was given with a question and the
\* call returned none
C20_Witness ==
  /\ Returned
  /\ normalizerValue = <<"x", "a">>
  /\ normalizerQuestion # NoQuestion
  /\ normalizerResult = None

(***************************************************************************)
(* Properties of the translation cache                                     *)
(***************************************************************************)

\* this step calls fetchTranslation for the key of the call before it, and
\* that call had sent a query which returned without an error
RepeatsSucceededCall ==
  /\ lastTranslationCall.outcome \in {"row", "empty"}
  /\ lastTranslationCall' # lastTranslationCall
  /\ lastTranslationCall'.questionId = lastTranslationCall.questionId
  /\ lastTranslationCall'.language = lastTranslationCall.language

\* this step calls fetchTranslation and finds the key in the cache
CacheHitStep ==
  /\ lastTranslationCall'.outcome = "hit"
  /\ trainingEvent' # "fetchTranslation"
  /\ translationFetches' = translationFetches
  /\ pendingTranslations' = pendingTranslations

\* C21: a fetchTranslation call that follows a completed, successful call for
\* the same question and language sends no query (the two calls cause one
\* fetch, whether the first found a row or not), and a call that finds its
\* key in the cache sets the cached row as the translation.
C21_SecondCallSendsNoQuery ==
  [][ /\ RepeatsSucceededCall =>
           /\ translationFetches' = translationFetches
           /\ pendingTranslations' = pendingTranslations
      /\ CacheHitStep =>
           translation' =
             translationsCache[CacheKey(lastTranslationCall'.questionId,
                                        lastTranslationCall'.language)]
    ]_vars

\* this step is the return of a translation query that failed
FailedQueryStep ==
  /\ trainingEvent' = "fetchTranslation"
  /\ trainingToast' = ToastTranslationFailed

\* this step calls fetchTranslation for the key of the call before it, whose
\* query had failed, and no other query has cached the key since
RetriesFailedCall ==
  /\ lastTranslationCall.outcome = "error"
  /\ lastTranslationCall' # lastTranslationCall
  /\ lastTranslationCall'.questionId = lastTranslationCall.questionId
  /\ lastTranslationCall'.language = lastTranslationCall.language
  /\ CacheKey(lastTranslationCall.questionId, lastTranslationCall.language)
       \notin DOMAIN translationsCache

\* C22: the return of a failed translation query writes nothing to the cache,
\* emits the failure toast, sets the translation to null and clears
\* translationLoading; the next call for the same key sends a new query.
C22_FailureIsNotCached ==
  [][ /\ FailedQueryStep =>
           /\ translationsCache' = translationsCache
           /\ translation' = NoTranslation
           /\ translationLoading' = FALSE
           /\ Cardinality(pendingTranslations') = Cardinality(pendingTranslations) - 1
      /\ RetriesFailedCall =>
           /\ translationFetches' = translationFetches + 1
           /\ lastTranslationCall'.outcome = "pending"
           /\ \E call \in pendingTranslations' \ pendingTranslations :
                /\ call.questionId = lastTranslationCall.questionId
                /\ call.language = lastTranslationCall.language
    ]_vars

\* a translation query has just failed: the toast is out, nothing is cached,
\* no translation is held and translationLoading is cleared
C22_Witness ==
  /\ trainingEvent = "fetchTranslation"
  /\ trainingToast = ToastTranslationFailed
  /\ lastTranslationCall.outcome = "error"
  /\ trainingShowTranslation
  /\ translation = NoTranslation
  /\ ~translationLoading
  /\ DOMAIN translationsCache = {}

\* the translation block of the main screen renders the held row
TranslationDisplayed ==
  /\ Shown
  /\ trainingShowTranslation
  /\ ~translationLoading
  /\ translation # NoTranslation

\* C23: a translation held for display is the translation of the question
\* currently shown, in the language currently selected.
C23_TranslationIsCurrent ==
  TranslationDisplayed =>
    /\ currentQuestion < Len(trainingQuestions)
    /\ translation.questionId = trainingQuestions[currentQuestion + 1]
    /\ translation.language = trainingSelectedLanguage

\* C24: an entry of the translation cache, once written, is neither
\* overwritten nor removed.
C24_CacheEntriesWrittenOnce ==
  [][ \A key \in DOMAIN translationsCache :
        /\ key \in DOMAIN translationsCache'
        /\ translationsCache'[key] = translationsCache[key]
    ]_vars

(***************************************************************************)
(* Properties of the training navigation with the translation              *)
(***************************************************************************)

\* this step is a prev, a next or a jump whose destination is a valid
\* position
NavigationStep ==
  \/ trainingEvent' = "nextQuestion" /\ currentQuestion + 1 < Len(trainingQuestions)
  \/ trainingEvent' = "prevQuestion" /\ currentQuestion - 1 >= 0
  \/ /\ trainingEvent' = "handleJumpToQuestion"
     /\ LET r == RequestedNumber(jumpToQuestion)
        IN  /\ r.num % r.den = 0
            /\ r.num \div r.den >= 1
            /\ r.num \div r.den <= Len(trainingQuestions)

\* C25: after a prev, next or jump to a valid position the selected answer is
\* empty, the reveal flag and the translation-visible flag are false and no
\* translation is held.
C25_NavigationResetsQuestionState ==
  [][NavigationStep =>
       /\ trainingSelectedAnswer' = ""
       /\ ~showCorrectAnswer'
       /\ ~trainingShowTranslation'
       /\ translation' = NoTranslation]_vars

\* next has just moved on from the first question, whose translation had
\* been fetched: no answer, no reveal, no visible and no held translation
C25_Witness ==
  /\ trainingEvent = "nextQuestion"
  /\ currentQuestion = 1
  /\ lastTranslationCall.outcome = "row"
  /\ lastTranslationCall.questionId = trainingQuestions[1]
  /\ trainingSelectedAnswer = ""
  /\ ~showCorrectAnswer
  /\ ~trainingShowTranslation
  /\ translation = NoTranslation

(***************************************************************************)
(* Properties of the exam timers                                           *)
(***************************************************************************)

\* C26: in the exam flow at most one timer is outstanding at any time.
C26_AtMostOneExamTimer == Len(timers) <= 1

\* this step runs the callback of the timer armed first, and the session
\* was not reset between the answer that armed it and now
FreshTimerFires ==
  /\ timers # <<>>
  /\ timers' = Tail(timers)
  /\ ~Head(timers).stale

\* C28: when the timer of the answer at position i fires with no reset in
\* between, then for i not the last position the position becomes i+1, the
\* selected answer, the reveal flag and the translation-visible flag are
\* cleared and score, answers and sequence are unchanged; for i the last
\* position the phase becomes finished and position and score are unchanged.
C28_TimerAdvancesOrFinishes ==
  [][FreshTimerFires =>
       IF Head(timers).index < Len(examQuestions) - 1
         THEN /\ currentQuestionIndex' = Head(timers).index + 1
              /\ selectedAnswer' = ""
              /\ ~showResult'
              /\ ~showTranslation'
              /\ UNCHANGED <<correctAnswers, userAnswers, examQuestions>>
         ELSE /\ examState' = "finished"
              /\ UNCHANGED <<currentQuestionIndex, correctAnswers>>]_vars

(***************************************************************************)
(* Properties of the training question list                                *)
(***************************************************************************)

\* the filter selected last: general, or a region once one is chosen (with
\* the switch on and no region chosen yet, nothing new is selected)
MostRecentFilter ==
  IF isStateSpecific /\ trainingSelectedState # ""
    THEN [stateSpecific |-> TRUE, state |-> trainingSelectedState]
    ELSE [stateSpecific |-> FALSE, state |-> ""]

\* this step stores the rows of the question query that returned
ListAppliedStep ==
  /\ trainingEvent' = "fetchQuestions"
  /\ trainingToast' # ToastQuestionsFailed

\* the rows of a query are stored only while the filter of the query is the
\* selected one
AppliedOnlyForSelectedFilter ==
  [][ListAppliedStep =>
        /\ Head(pendingFetches).stateSpecific = isStateSpecific
        /\ Head(pendingFetches).state = trainingSelectedState]_vars

KeysWhere(P(_)) == {OptionKeys[k] : k \in {j \in 1..4 : P(j)}}

\* the rules of the reference in their order, each with the condition under
\* which it matches the trimmed lower-cased value v and the keys it may then
\* return; q is the question or NoQuestion
ReferenceRules(v, q) ==
  LET IsLetter(k) == v = <<OptionKeys[k]>>
      IsDigit(k) == v = <<Digits[k]>>
      LastIs(k) == v # <<>> /\ v[Len(v)] = OptionKeys[k]
      FirstIs(k) == v # <<>> /\ v[1] = OptionKeys[k]
      IsTextOf(k) == q # NoQuestion /\ ToLowerCase(Trim(OptionTexts(q)[k])) = v
      HasPrefix == /\ Len(v) >= Len(OptionPrefix)
                   /\ SubSeq(v, 1, Len(OptionPrefix)) = OptionPrefix
  IN  << [matches |-> v = <<>>, keys |-> {None}],
         [matches |-> \E k \in 1..4 : IsLetter(k), keys |-> KeysWhere(IsLetter)],
         [matches |-> \E k \in 1..4 : IsDigit(k), keys |-> KeysWhere(IsDigit)],
         [matches |-> HasPrefix /\ \E k \in 1..4 : LastIs(k),
          keys |-> KeysWhere(LastIs)],
         [matches |-> \E k \in 1..4 : FirstIs(k), keys |-> KeysWhere(FirstIs)],
         [matches |-> \E k \in 1..4 : IsTextOf(k), keys |-> KeysWhere(IsTextOf)],
         [matches |-> TRUE, keys |-> {None}] >>

\* what the reference may return: the keys of the first rule that matches
ReferenceResults(value, q) ==
  IF value = NullValue THEN {None}
  ELSE LET rules == ReferenceRules(ToLowerCase(Trim(value)), q)
           first == CHOOSE i \in 1..Len(rules) :
                      /\ rules[i].matches
                      /\ \A j \in 1..(i - 1) : ~rules[j].matches
       IN  rules[first].keys

\* C29: normalizeCorrectOption returns what the reference returns, whose
\* rules are tried in order: empty, exact letter, digit 1-4, option_ with a
\* last character a-d, first character a-d, option text, none.
C29_EqualsReference ==
  Returned => normalizerResult \in ReferenceResults(normalizerValue, normalizerQuestion)

\* an option text beginning with a letter a-d was given and the first
\* character was returned, not the key of the option
C29_Witness ==
  /\ Returned
  /\ normalizerQuestion # NoQuestion
  /\ normalizerValue = TextBerlin
  /\ normalizerQuestion.option_a = TextBerlin
  /\ normalizerResult = "b"

(***************************************************************************)
(* Properties of shuffleArray                                              *)
(***************************************************************************)

\* the number of positions of arr that hold x
Occurrences(arr, x) == Cardinality({k \in 1..Len(arr) : arr[k] = x})

\* b holds the elements of a with the same multiplicities
IsPermutationOf(b, a) ==
  /\ Len(b) = Len(a)
  /\ \A x \in Range(a) \cup Range(b) : Occurrences(b, x) = Occurrences(a, x)

\* all arrangements of the elements of a
PermutationsOf(a) ==
  {b \in [1..Len(a) -> Range(a)] : IsPermutationOf(b, a)}

\* C30: shuffleArray returns a permutation of its argument, leaves the
\* argument as it was, and every permutation of the argument is the result
\* for some values of Math.random().
C30_ShuffleIsAnyPermutation ==
  shufflePc = "returned" =>
    /\ IsPermutationOf(shuffleOutput, shuffleInput)
    /\ shuffleArgument = shuffleInput
    /\ \A b \in PermutationsOf(shuffleInput) :
         \E stream \in RandomStreams : shuffleArray(shuffleInput, stream, 0) = b

\* an array of three different elements was returned reversed
C30_Witness ==
  /\ shufflePc = "returned"
  /\ shuffleInput = <<"x", "y", "z">>
  /\ shuffleOutput = <<"z", "y", "x">>
  /\ shuffleArgument = <<"x", "y", "z">>

(***************************************************************************)
(* Properties of the auto-reveal over whole sessions                       *)
(***************************************************************************)

\* the training session with every armed auto-reveal timer firing in the end
SpecTrainingTimersFire ==
  Init /\ [][NextTraining]_vars /\ WF_vars(RevealTimerFire)

\* the displayed question is neither answered nor revealed
AwaitsReveal ==
  /\ Shown /\ pendingFetches = <<>>
  /\ HasCurrentQuestion
  /\ trainingSelectedAnswer = "" /\ ~showCorrectAnswer

\* a step taken by the user: any step but a timer firing or a query returning
UserStep == trainingEvent' \notin {"timer", "fetchQuestions", "fetchTranslation"}

\* C31: from a state in which the displayed question is unanswered and not
\* revealed, the reveal flag becomes true in the end if the user takes no
\* further step: in a session whose user stops acting, the question does not
\* stay unanswered and unrevealed for ever.
C31_UnansweredIsRevealed ==
  []<><<UserStep>>_vars \/ []<>(~AwaitsReveal)

(***************************************************************************)
(* Properties of the exam over whole sessions                              *)
(***************************************************************************)

\* the number of positions with a recorded answer
AnswersRecorded ==
  Cardinality({k \in 1..Len(userAnswers) : userAnswers[k] \in AnswerKeys})

\* C32: with Back never pressed, every presented question answered and
\* every armed timer firing, a running session reaches finished, and it is
\* finished with exactly 33 answers recorded and a score from 0 to 33.
C32_AnsweredSessionFinishes ==
  /\ (examState = "running") ~> (examState = "finished")
  /\ [](examState = "finished" =>
          /\ AnswersRecorded = GeneralCount + StateCount
          /\ correctAnswers \in 0..(GeneralCount + StateCount))

\* C33: a step from running back to setup (the Back button) discards the
\* session: sequence, position, score, selected answer, reveal flag and
\* answer record are then at their initial values, as after resetExam.
C33_BackDiscardsSession ==
  [][(examState = "running" /\ examState' = "setup") =>
       /\ examQuestions' = <<>>
       /\ currentQuestionIndex' = 0
       /\ correctAnswers' = 0
       /\ selectedAnswer' = ""
       /\ showResult' = FALSE
       /\ userAnswers' = <<>>]_vars

(***************************************************************************)
(* Properties of the per-question state in training                        *)
(***************************************************************************)

\* C34: a selection or a reveal belongs to the question displayed: a step
\* that selects an answer or reveals leaves the position and the list as
\* they are, and a step that changes the position or the list (the switch
\* between general and region questions included) leaves no answer selected
\* and nothing revealed.
C34_SelectionBelongsToQuestion ==
  /\ [][((trainingSelectedAnswer' # "" /\ trainingSelectedAnswer' # trainingSelectedAnswer)
           \/ (showCorrectAnswer' /\ ~showCorrectAnswer)) =>
          UNCHANGED <<currentQuestion, trainingQuestions>>]_vars
  /\ [][(currentQuestion' # currentQuestion
           \/ trainingQuestions' # trainingQuestions) =>
          (trainingSelectedAnswer' = "" /\ ~showCorrectAnswer')]_vars

(***************************************************************************)
(* Case, padding and idempotence of the answer normaliser                  *)
(***************************************************************************)

\* String.prototype.toUpperCase on one character
UpperChar(c) ==
  CASE c = "a" -> "A" [] c = "b" -> "B" [] c = "c" -> "C" [] c = "d" -> "D"
    [] c = "o" -> "O" [] c = "p" -> "P" [] c = "t" -> "T" [] c = "i" -> "I"
    [] c = "n" -> "N" [] c = "e" -> "E" [] c = "x" -> "X"
    [] c = "j" -> "J" [] c = "l" -> "L" [] c = "r" -> "R" [] c = "s" -> "S"
    [] c = "w" -> "W" [] c = "z" -> "Z"
    [] OTHER -> c

\* the spaces put before and after a value
Paddings == {<<>>, <<" ">>, <<" ", " ">>}

\* the value with each letter in upper or lower case, and spaces around it
Variants(value) ==
  {before \o [i \in 1..Len(value) |->
                IF upper[i] THEN UpperChar(value[i]) ELSE LowerChar(value[i])]
          \o after :
     upper \in [1..Len(value) -> BOOLEAN], before \in Paddings, after \in Paddings}

\* C35: the result for a value is the result for each re-cased, space-padded
\* variant of it, and a key returned for a question is returned again when
\* the normaliser is applied to that key for the same question.
C35_CaseAndPaddingInsensitive ==
  normalizerPc = "returned" =>
    /\ normalizerValue # NullValue =>
         \A variant \in Variants(normalizerValue) :
           normalizeCorrectOption(variant, normalizerQuestion) = normalizerResult
    /\ normalizerResult # None =>
         normalizeCorrectOption(<<normalizerResult>>, normalizerQuestion)
           = normalizerResult

\* the padded option text " Ja " in mixed case was resolved to its key
C35_Witness ==
  /\ normalizerPc = "returned"
  /\ normalizerValue = TextJaPadded
  /\ normalizerQuestion # NoQuestion
  /\ normalizerResult = "d"

(***************************************************************************)
(* Properties of resetExam                                                 *)
(***************************************************************************)

\* C36: in every reachable state resetExam yields the initial values (phase
\* setup, no region, no language, translation hidden, empty sequence,
\* position 0, score 0, no selection, nothing revealed, empty answer
\* record), applying it twice gives what applying it once gives, and the
\* step of the button of the finished screen writes exactly these values.
C36_ResetYieldsInitialState ==
  /\ [](/\ resetExamFields(ExamFields) = InitialExamFields
        /\ resetExamFields(resetExamFields(ExamFields)) = resetExamFields(ExamFields))
  /\ [][(examState = "finished" /\ examState' = "setup") =>
          ExamFields' = resetExamFields(ExamFields)]_vars

\* resetExam has run on a finished session while a start call was pending:
\* setup with every field initial, no region chosen and the call outstanding
C36_Witness ==
  /\ ExamFields = InitialExamFields
  /\ pendingStarts # <<>>

====
